---- MODULE Spec2Model ----
(***************************************************************************)
(* tugboat: the bounded task runner (internal/pool, Run) and the           *)
(* repository manager (package repo: Status, Sync, Push, Pull and the      *)
(* expansion of targets into status jobs).                                 *)
(*                                                                         *)
(* Three specifications over one set of variables:                         *)
(*   SpecPool    one call of pool.Run, goroutine by goroutine;             *)
(*   FairPool    the same under the Go scheduler's fairness;               *)
(*   Spec        one command of the manager, from targetsFor to return.    *)
(***************************************************************************)
EXTENDS Integers, Sequences, FiniteSets, TLC

(***************************************************************************)
(* Bounds of the model.                                                    *)
(***************************************************************************)
\* largest number of items handed to one pool.Run call
MaxItems == 2
\* largest worker count requested on the command line or in the config
MaxWorkers == 2
\* value of runtime.GOMAXPROCS(0) on the modelled machine
NumCPU == 2
\* largest ahead or behind count git rev-list reports
MaxCount == 1
MaxEntries == 2
MaxTargets == 2

(***************************************************************************)
(* Small helpers.                                                          *)
(***************************************************************************)
Min(a, b) == IF a < b THEN a ELSE b

Range(s) == {s[i] : i \in 1..Len(s)}

\* number of positions of sequence s holding value v
RECURSIVE CountIn(_, _)
CountIn(s, v) ==
    IF s = <<>> THEN 0
    ELSE (IF Head(s) = v THEN 1 ELSE 0) + CountIn(Tail(s), v)

\* all sequences over S of length 0..n
SeqsUpTo(S, n) == UNION {[1..k -> S] : k \in 0..n}

(***************************************************************************)
(* pool.Run                                                                *)
(***************************************************************************)
VARIABLES
    items,        \* the items argument, a sequence of values
    workers,      \* the workers argument as passed by the caller
    fn,           \* the fn argument, a function from item values to results
    hang,         \* index of the item whose fn invocation never returns, 0 for none
    pc,           \* position of the goroutine that called Run
    nworkers,     \* the local `workers` after the default and the clamp
    started,      \* number of worker goroutines started by the loop at line 28
    sent,         \* number of items sent on jobs by the loop at line 39
    jobs,         \* buffer of the jobs channel (indices into items)
    jobsClosed,   \* close(jobs) was executed
    results,      \* buffer of the results channel
    resultsClosed,\* close(results) was executed
    chanCap,      \* capacity both channels were made with
    wg,           \* the WaitGroup counter
    wpc,          \* position of every worker goroutine
    witem,        \* index of the item a worker holds
    closer,       \* position of the goroutine of line 45
    out,          \* the out slice of the collector
    ret,          \* the slice Run returned
    calls,        \* calls[i]: number of fn invocations begun on items[i]
    finished,     \* finished[i]: number of fn invocations on items[i] that returned
    panicked      \* a send on a closed channel or a second close happened

poolVars == <<items, workers, fn, hang, pc, nworkers, started, sent, jobs,
              jobsClosed, results, resultsClosed, chanCap, wg, wpc, witem,
              closer, out, ret, calls, finished, panicked>>

\* the variables of the repository manager
VARIABLES
    cmd,          \* the command: "status", "sync", "push", "pull", "clone", "list"
    targetNames,  \* the target names given on the command line
    cfgTargets,   \* m.config.Targets
    ffOnly,       \* per provider, Options.Sync.FFOnly: "unset", "true" or "false"
    fsKind,       \* per path of the layout: "none", "file", "dir" or "repo"
    manifest,     \* per path, the content of <path>/.tugboat.json
    remote,       \* per organization, what ListOrgRepos answers
    broken,       \* the working copies in which git cannot resolve the branch
    excludeEmpty,    \* the --exclude-empty flag of clone
    includeArchived, \* the --include-archived flag of clone and list
    mpc,          \* position of the command
    targets,      \* the targets selected by targetsFor
    statusJobs,   \* the status jobs handed to pool.Run
    orgKeys,      \* the (provider, organization) pairs collected with the jobs
    pullJobs,     \* the jobs Pull hands to pool.Run
    pending,      \* indices of the jobs whose result pool.Run has not yet collected
    statuses,     \* the statuses: in completion order, then annotated and sorted
    cursor,       \* number of statuses the command's loop has gone through
    counts,       \* the counters of the command's summary line
    gitLog,       \* the git pull and git push invocations, in order
    retErr,       \* the error the command returned, "" for nil
    cloneJobs,    \* the clone jobs of the target Clone is at
    remoteCalls   \* the calls made to the remote providers, in order

mgrVars == <<cmd, targetNames, cfgTargets, ffOnly, fsKind, manifest, remote, broken,
             excludeEmpty, includeArchived, mpc, targets, statusJobs, orgKeys,
             pullJobs, pending, statuses, cursor, counts, gitLog, retErr,
             cloneJobs, remoteCalls>>

\* the variables of the status computation run on one repository
VARIABLES
    repository,   \* the local repository and its remote, as git sees them
    answers,      \* what git answered to each run of getRepoStatus
    runs,         \* the status each run of getRepoStatus returned
    changed,      \* the repository or its remote was changed between the runs
    issued        \* the git commands each run of getRepoStatus ran, in order

stVars == <<repository, answers, runs, changed, issued>>

\* the variables of the reading of one foldout manifest
VARIABLES
    fopc,         \* position in the reading of the manifest
    loaded,       \* what loadFoldout returned
    cleanErr,     \* what cleanFoldoutTargets returned, "" for nil
    dests         \* the local directory of each entry of the manifest

foVars == <<fopc, loaded, cleanErr, dests>>

\* the variables of the loading and the migration of the configuration
VARIABLES
    cdoc,         \* the configuration file, as the JSON document it holds
    homeOk,       \* os.UserHomeDir answers without error
    cpc,          \* position in load, migrate, load again
    loadResult,   \* what LoadFromBytes returned for the file
    v2JSON,       \* the document ToJSON made of the migrated configuration
    reloaded      \* what LoadFromBytes returned for that document

cfVars == <<cdoc, homeOk, cpc, loadResult, v2JSON, reloaded>>

ItemVals == {"u", "v"}
ResultVals == {"r1", "r2"}
\* the functions tried as fn: one telling the items apart, one constant
FnChoices == {[x \in ItemVals |-> IF x = "u" THEN "r1" ELSE "r2"],
              [x \in ItemVals |-> "r1"]}
WorkerIds == 1..(IF MaxWorkers > NumCPU THEN MaxWorkers ELSE NumCPU)

\* cmd/tugboat main: the CLI value wins when positive, else the config value
resolveWorkers(cliWorkers, cfgWorkers) ==
    IF cliWorkers > 0 THEN cliWorkers ELSE cfgWorkers

\* pool.go 16-21: default to GOMAXPROCS, clamp to the number of items
EffWorkersNoClamp(w, n) ==
    IF w <= 0 THEN NumCPU ELSE w

EffWorkersSingle(w, n) == IF n > 0 THEN 1 ELSE 0

EffWorkers(w, n) ==
    LET d == IF w <= 0 THEN NumCPU ELSE w
    IN  IF d > n THEN n ELSE d

\* pool.go 23-24: both channels are made with capacity len(items)
ChanCap(n) == n

PoolInit ==
    /\ items \in SeqsUpTo(ItemVals, MaxItems)
    /\ \E cli \in 0..MaxWorkers, cfg \in -1..MaxWorkers :
           workers = resolveWorkers(cli, cfg)
    /\ fn \in FnChoices
    /\ hang \in 0..Len(items)
    /\ pc = "entry"
    /\ nworkers = 0
    /\ started = 0
    /\ sent = 0
    /\ jobs = <<>>
    /\ jobsClosed = FALSE
    /\ results = <<>>
    /\ resultsClosed = FALSE
    /\ chanCap = 0
    /\ wg = 0
    /\ wpc = [w \in WorkerIds |-> "none"]
    /\ witem = [w \in WorkerIds |-> 0]
    /\ closer = "none"
    /\ out = <<>>
    /\ ret = <<>>
    /\ calls = [i \in 1..Len(items) |-> 0]
    /\ finished = [i \in 1..Len(items) |-> 0]
    /\ panicked = FALSE

\* pool.go 12-24: the empty case returns nil at once; otherwise the worker
\* count is fixed and the two channels are made
RunEntry ==
    /\ pc = "entry"
    /\ IF Len(items) = 0
       THEN /\ pc' = "done"
            /\ ret' = <<>>
            /\ UNCHANGED <<nworkers, chanCap>>
       ELSE /\ pc' = "spawn"
            /\ nworkers' = EffWorkers(workers, Len(items))
            /\ chanCap' = ChanCap(Len(items))
            /\ UNCHANGED ret
    /\ UNCHANGED <<items, workers, fn, hang, started, sent, jobs, jobsClosed,
                   results, resultsClosed, wg, wpc, witem, closer, out, calls,
                   finished, panicked>>

\* pool.go 28-36: one iteration of the loop that starts the workers
StartWorker ==
    /\ pc = "spawn"
    /\ IF started < nworkers
       THEN /\ wg' = wg + 1
            /\ started' = started + 1
            /\ wpc' = [wpc EXCEPT ![started + 1] = "recv"]
            /\ UNCHANGED pc
       ELSE /\ pc' = "send"
            /\ UNCHANGED <<wg, started, wpc>>
    /\ UNCHANGED <<items, workers, fn, hang, nworkers, sent, jobs, jobsClosed,
                   results, resultsClosed, chanCap, witem, closer, out, ret,
                   calls, finished, panicked>>

\* pool.go 39-41: one send on jobs; blocks while the buffer is full
SendJob ==
    /\ pc = "send"
    /\ sent < Len(items)
    /\ Len(jobs) < chanCap
    /\ jobs' = Append(jobs, sent + 1)
    /\ sent' = sent + 1
    /\ UNCHANGED <<items, workers, fn, hang, pc, nworkers, started, jobsClosed,
                   results, resultsClosed, chanCap, wg, wpc, witem, closer, out,
                   ret, calls, finished, panicked>>

\* pool.go 42: close(jobs) once the send loop is over
CloseJobsSkipped ==
    /\ pc = "send"
    /\ sent = Len(items)
    /\ pc' = "gocloser"
    /\ UNCHANGED <<items, workers, fn, hang, nworkers, started, sent, jobs,
                   jobsClosed, results, resultsClosed, chanCap, wg, wpc, witem,
                   closer, out, ret, calls, finished, panicked>>

CloseJobs ==
    /\ pc = "send"
    /\ sent = Len(items)
    /\ jobsClosed' = TRUE
    /\ panicked' = (panicked \/ jobsClosed)
    /\ pc' = "gocloser"
    /\ UNCHANGED <<items, workers, fn, hang, nworkers, started, sent, jobs,
                   results, resultsClosed, chanCap, wg, wpc, witem, closer, out,
                   ret, calls, finished>>

\* pool.go 45-48: the go statement that starts the closing goroutine
StartCloser ==
    /\ pc = "gocloser"
    /\ closer' = "wait"
    /\ pc' = "collect"
    /\ UNCHANGED <<items, workers, fn, hang, nworkers, started, sent, jobs,
                   jobsClosed, results, resultsClosed, chanCap, wg, wpc, witem,
                   out, ret, calls, finished, panicked>>

\* the closing goroutine closing results without wg.Wait()
CloserCloseNoWait ==
    /\ closer = "wait"
    /\ resultsClosed' = TRUE
    /\ panicked' = (panicked \/ resultsClosed)
    /\ closer' = "done"
    /\ UNCHANGED <<items, workers, fn, hang, pc, nworkers, started, sent, jobs,
                   jobsClosed, results, chanCap, wg, wpc, witem, out, ret, calls,
                   finished>>

\* pool.go 46-47: wg.Wait() returns when the counter is zero, then close(results)
CloserClose ==
    /\ closer = "wait"
    /\ wg = 0
    /\ resultsClosed' = TRUE
    /\ panicked' = (panicked \/ resultsClosed)
    /\ closer' = "done"
    /\ UNCHANGED <<items, workers, fn, hang, pc, nworkers, started, sent, jobs,
                   jobsClosed, results, chanCap, wg, wpc, witem, out, ret, calls,
                   finished>>

\* pool.go 51-55: one iteration of `for r := range results`, or the return
\* once results is closed and drained
CollectEarlyReturn ==
    /\ pc = "collect"
    /\ IF results # <<>>
       THEN /\ out' = Append(out, Head(results))
            /\ results' = Tail(results)
            /\ UNCHANGED <<pc, ret>>
       ELSE /\ pc' = "done"
            /\ ret' = out
            /\ UNCHANGED <<out, results>>
    /\ UNCHANGED <<items, workers, fn, hang, nworkers, started, sent, jobs,
                   jobsClosed, resultsClosed, chanCap, wg, wpc, witem, closer,
                   calls, finished, panicked>>

Collect ==
    /\ pc = "collect"
    /\ IF results # <<>>
       THEN /\ out' = Append(out, Head(results))
            /\ results' = Tail(results)
            /\ UNCHANGED <<pc, ret>>
       ELSE /\ resultsClosed
            /\ pc' = "done"
            /\ ret' = out
            /\ UNCHANGED <<out, results>>
    /\ UNCHANGED <<items, workers, fn, hang, nworkers, started, sent, jobs,
                   jobsClosed, resultsClosed, chanCap, wg, wpc, witem, closer,
                   calls, finished, panicked>>

\* pool.go 32: `for item := range jobs` takes the next item and calls fn on it,
\* or leaves the loop when jobs is closed and drained (then the deferred
\* wg.Done of line 31 runs)
WorkerRecvNoDequeue(w) ==
    /\ wpc[w] = "recv"
    /\ jobs # <<>>
    /\ witem' = [witem EXCEPT ![w] = Head(jobs)]
    /\ calls' = [calls EXCEPT ![Head(jobs)] = @ + 1]
    /\ wpc' = [wpc EXCEPT ![w] = "run"]
    /\ UNCHANGED <<items, workers, fn, hang, pc, nworkers, started, sent, jobs,
                   jobsClosed, results, resultsClosed, chanCap, wg, closer, out,
                   ret, finished, panicked>>

WorkerRecv(w) ==
    /\ wpc[w] = "recv"
    /\ IF jobs # <<>>
       THEN /\ witem' = [witem EXCEPT ![w] = Head(jobs)]
            /\ jobs' = Tail(jobs)
            /\ calls' = [calls EXCEPT ![Head(jobs)] = @ + 1]
            /\ wpc' = [wpc EXCEPT ![w] = "run"]
            /\ UNCHANGED wg
       ELSE /\ jobsClosed
            /\ wpc' = [wpc EXCEPT ![w] = "exit"]
            /\ wg' = wg - 1
            /\ UNCHANGED <<witem, jobs, calls>>
    /\ UNCHANGED <<items, workers, fn, hang, pc, nworkers, started, sent,
                   jobsClosed, results, resultsClosed, chanCap, closer, out, ret,
                   finished, panicked>>

\* pool.go 33: fn(item) returns (never, for the item that hangs)
WorkerFnReturn(w) ==
    /\ wpc[w] = "run"
    /\ witem[w] # hang
    /\ finished' = [finished EXCEPT ![witem[w]] = @ + 1]
    /\ wpc' = [wpc EXCEPT ![w] = "send"]
    /\ UNCHANGED <<items, workers, fn, hang, pc, nworkers, started, sent, jobs,
                   jobsClosed, results, resultsClosed, chanCap, wg, witem, closer,
                   out, ret, calls, panicked>>

\* pool.go 33: `results <- ...`; blocks while the buffer is full, panics on a
\* closed channel
WorkerSend(w) ==
    /\ wpc[w] = "send"
    /\ IF resultsClosed
       THEN /\ panicked' = TRUE
            /\ wpc' = [wpc EXCEPT ![w] = "exit"]
            /\ UNCHANGED results
       ELSE /\ Len(results) < chanCap
            /\ results' = Append(results, fn[items[witem[w]]])
            /\ wpc' = [wpc EXCEPT ![w] = "recv"]
            /\ UNCHANGED panicked
    /\ UNCHANGED <<items, workers, fn, hang, pc, nworkers, started, sent, jobs,
                   jobsClosed, resultsClosed, chanCap, wg, witem, closer, out,
                   ret, calls, finished>>

Worker(w) ==
    (WorkerRecv(w) \/ WorkerFnReturn(w) \/ WorkerSend(w)) /\ UNCHANGED <<mgrVars, stVars, foVars, cfVars>>

Caller ==
    (RunEntry \/ StartWorker \/ SendJob \/ CloseJobs \/ StartCloser \/ Collect)
    /\ UNCHANGED <<mgrVars, stVars, foVars, cfVars>>

CloserStep == CloserClose /\ UNCHANGED <<mgrVars, stVars, foVars, cfVars>>

PoolNext ==
    \/ RunEntry /\ UNCHANGED <<mgrVars, stVars, foVars, cfVars>>
    \/ StartWorker /\ UNCHANGED <<mgrVars, stVars, foVars, cfVars>>
    \/ SendJob /\ UNCHANGED <<mgrVars, stVars, foVars, cfVars>>
    \/ CloseJobs /\ UNCHANGED <<mgrVars, stVars, foVars, cfVars>>
    \/ StartCloser /\ UNCHANGED <<mgrVars, stVars, foVars, cfVars>>
    \/ Collect /\ UNCHANGED <<mgrVars, stVars, foVars, cfVars>>
    \/ CloserClose /\ UNCHANGED <<mgrVars, stVars, foVars, cfVars>>
    \/ (\E w \in WorkerIds : WorkerRecv(w)) /\ UNCHANGED <<mgrVars, stVars, foVars, cfVars>>
    \/ (\E w \in WorkerIds : WorkerFnReturn(w)) /\ UNCHANGED <<mgrVars, stVars, foVars, cfVars>>
    \/ (\E w \in WorkerIds : WorkerSend(w)) /\ UNCHANGED <<mgrVars, stVars, foVars, cfVars>>

\* the state of a process that is not inside pool.Run
PoolIdle ==
    /\ items = <<>>
    /\ workers = 0
    /\ fn = [x \in ItemVals |-> "r1"]
    /\ hang = 0
    /\ pc = "idle"
    /\ nworkers = 0
    /\ started = 0
    /\ sent = 0
    /\ jobs = <<>>
    /\ jobsClosed = FALSE
    /\ results = <<>>
    /\ resultsClosed = FALSE
    /\ chanCap = 0
    /\ wg = 0
    /\ wpc = [w \in WorkerIds |-> "none"]
    /\ witem = [w \in WorkerIds |-> 0]
    /\ closer = "none"
    /\ out = <<>>
    /\ ret = <<>>
    /\ calls = <<>>
    /\ finished = <<>>
    /\ panicked = FALSE

(***************************************************************************)
(* The repository manager (package repo).                                  *)
(*                                                                         *)
(* A path is the sequence of its segments below the filesystem root. A     *)
(* foldout target and a foldout name are kept as the sequence of their     *)
(* "/"-separated segments, so that strings.Split, strings.Contains and     *)
(* filepath.Join act on what the strings hold. Names hold no "|", so the   *)
(* key provider|org of orgKey.string is the pair <<provider, org>>.        *)
(***************************************************************************)
W1 == <<"w1">>
W2 == <<"w2">>
SubNames == {"x", "y"}
Orgs == {"o1", "o2"}
Providers == {"gitea", "github"}
\* the paths of the on-disk layout; every other path does not exist
\* a path two levels under w1
Nested == <<"w1", "y", "x">>
LayoutPaths == {W1, W2, Nested} \cup {Append(W1, n) : n \in SubNames}

\* the strings that are compared with <, in increasing order
NameOrder == <<"a", "b", "r", "x", "y">>

RankOf(str) == CHOOSE i \in 1..Len(NameOrder) : NameOrder[i] = str

StrLess(s1, s2) == RankOf(s1) < RankOf(s2)

\* GetFFOnly with an unset option read as false
GetFFOnlyUnsetFalse(opt) == opt = "true"

\* config.go 34-39
GetFFOnly(opt) == IF opt = "unset" THEN TRUE ELSE opt = "true"

KindOf(path) == IF path \in DOMAIN fsKind THEN fsKind[path] ELSE "none"

\* os.Stat(path) does not answer "not exist"
PathExists(path) == KindOf(path) # "none"

\* part_000 575-579: <path>/.git exists and is a directory
isGitRepo(path) == KindOf(path) = "repo"

\* filepath.Join(base, target): "." and empty segments vanish, ".." removes
\* the segment before it
RECURSIVE CleanJoin(_, _)
CleanJoin(base, segs) ==
    IF segs = <<>> THEN base
    ELSE LET sg == Head(segs)
             nb == IF sg = "." \/ sg = "" THEN base
                   ELSE IF sg = ".."
                        THEN (IF base = <<>> THEN base
                              ELSE SubSeq(base, 1, Len(base) - 1))
                        ELSE Append(base, sg)
         IN  CleanJoin(nb, Tail(segs))

\* strings.Join(names, ", ")
RECURSIVE JoinNames(_)
JoinNames(names) ==
    IF names = <<>> THEN ""
    ELSE IF Len(names) = 1 THEN names[1]
    ELSE names[1] \o ", " \o JoinNames(Tail(names))

\* the segments of a name put together again with "/"
RECURSIVE JoinSlash(_)
JoinSlash(segs) ==
    IF segs = <<>> THEN ""
    ELSE IF Len(segs) = 1 THEN segs[1]
    ELSE segs[1] \o "/" \o JoinSlash(Tail(segs))

\* part_000 73-100
RECURSIVE targetsForLoop(_, _, _, _)
targetsForLoop(names, res, missing, seen) ==
    IF names = <<>> THEN [res |-> res, missing |-> missing]
    ELSE LET n == Head(names)
             known == {i \in 1..Len(cfgTargets) : cfgTargets[i].Name = n}
         IN  IF known = {}
             THEN targetsForLoop(Tail(names), res, Append(missing, n), seen)
             ELSE IF n \in seen
                  THEN targetsForLoop(Tail(names), res, missing, seen)
                  ELSE targetsForLoop(Tail(names),
                                      Append(res, cfgTargets[CHOOSE i \in known :
                                                     \A k \in known : k <= i]),
                                      missing, seen \cup {n})

\* targetsFor handing back the targets it knows, whatever else was asked for
targetsForSkippingUnknown(names) ==
    IF Len(names) = 0
    THEN [err |-> "", targets |-> cfgTargets]
    ELSE [err |-> "", targets |-> targetsForLoop(names, <<>>, <<>>, {}).res]

targetsFor(names) ==
    IF Len(names) = 0
    THEN [err |-> "", targets |-> cfgTargets]
    ELSE LET r == targetsForLoop(names, <<>>, <<>>, {})
         IN  IF Len(r.missing) > 0
             THEN [err |-> "unknown targets: " \o JoinNames(r.missing),
                   targets |-> <<>>]
             ELSE [err |-> "", targets |-> r.res]

\* part_000 127-149: absent file -> no manifest; unreadable or malformed JSON
\* -> error; a name that does not split into two segments -> error; an empty
\* target becomes the last segment of the name
RECURSIVE foldoutDefaults(_)
foldoutDefaults(repos) ==
    IF repos = <<>> THEN [err |-> "", repos |-> <<>>]
    ELSE LET r == Head(repos)
         IN  IF Len(r.Name) # 2
             THEN [err |-> "invalid repo name", repos |-> <<>>]
             ELSE LET rest == foldoutDefaults(Tail(repos))
                      tgt == IF r.Target = <<>>
                             THEN (IF r.Name[2] = "" THEN <<>> ELSE <<r.Name[2]>>)
                             ELSE r.Target
                  IN  IF rest.err # "" THEN rest
                      ELSE [err |-> "",
                            repos |-> <<[Name |-> r.Name, Target |-> tgt]>> \o rest.repos]

ManifestOf(path) ==
    IF path \in DOMAIN manifest THEN manifest[path]
    ELSE [kind |-> "absent", repos |-> <<>>]

loadFoldout(path) ==
    LET mf == ManifestOf(path)
    IN  IF KindOf(path) = "file"
        THEN [err |-> "read error", present |-> FALSE, repos |-> <<>>]
        ELSE IF mf.kind = "absent" \/ ~PathExists(path)
        THEN [err |-> "", present |-> FALSE, repos |-> <<>>]
        ELSE IF mf.kind = "unreadable"
        THEN [err |-> "read error", present |-> FALSE, repos |-> <<>>]
        ELSE IF mf.kind = "malformed"
        THEN [err |-> "parsing .tugboat.json", present |-> FALSE, repos |-> <<>>]
        ELSE LET d == foldoutDefaults(mf.repos)
             IN  [err |-> d.err, present |-> d.err = "", repos |-> d.repos]

\* the segments of the targets tried that hold ".."
DotDotSegments == {"..", "a..b"}

\* part_000 151-166: "" for nil, else the error of the first entry refused
RECURSIVE cleanFoldoutLoop(_, _)
cleanFoldoutLoop(repos, seen) ==
    IF repos = <<>> THEN ""
    ELSE LET r == Head(repos)
         IN  IF r.Target = <<>> THEN "foldout target empty"
             ELSE IF \E i \in 1..Len(r.Target) : r.Target[i] \in DotDotSegments
             THEN "foldout target must not contain .."
             ELSE IF r.Target \in seen THEN "duplicate foldout target"
             ELSE cleanFoldoutLoop(Tail(repos), seen \cup {r.Target})

cleanFoldoutTargets(repos) == cleanFoldoutLoop(repos, {})

\* os.ReadDir(path), in its order (sorted by name): the names under path and
\* whether each is a directory; fails on what is not a directory
ReadDirFails(path) == KindOf(path) \notin {"dir", "repo"}

RECURSIVE DirEntries(_, _)
DirEntries(path, k) ==
    IF k > Len(NameOrder) THEN <<>>
    ELSE LET n == NameOrder[k]
             here == IF n \in SubNames /\ PathExists(Append(path, n))
                     THEN <<[name |-> n, isDir |-> KindOf(Append(path, n)) # "file"]>>
                     ELSE <<>>
         IN  here \o DirEntries(path, k + 1)

ReadDir(path) == DirEntries(path, 1)

statusJob(path, target, name, org, provider) ==
    [path |-> path, target |-> target, name |-> name, org |-> org,
     provider |-> provider]

\* orgJobs taking every directory for a working copy
RECURSIVE orgJobsEveryDir(_, _)
orgJobsEveryDir(t, entries) ==
    IF entries = <<>> THEN <<>>
    ELSE LET e == Head(entries)
             repoPath == Append(t.Path, e.name)
         IN  (IF e.isDir
              THEN <<statusJob(repoPath, t.Name, e.name, t.Org, t.Provider)>>
              ELSE <<>>) \o orgJobsEveryDir(t, Tail(entries))

\* part_000 483-492: the jobs of an organization target
RECURSIVE orgJobs(_, _)
orgJobs(t, entries) ==
    IF entries = <<>> THEN <<>>
    ELSE LET e == Head(entries)
             repoPath == Append(t.Path, e.name)
         IN  (IF e.isDir /\ isGitRepo(repoPath)
              THEN <<statusJob(repoPath, t.Name, e.name, t.Org, t.Provider)>>
              ELSE <<>>) \o orgJobs(t, Tail(entries))

\* foldoutJobs with a job for every entry, cloned or not
RECURSIVE foldoutJobsEveryEntry(_, _)
foldoutJobsEveryEntry(t, repos) ==
    IF repos = <<>> THEN <<>>
    ELSE LET fr == Head(repos)
             dest == CleanJoin(t.Path, fr.Target)
             repoName == fr.Name[Len(fr.Name)]
             frOrg == IF Len(fr.Name) = 2 THEN fr.Name[1] ELSE t.Org
         IN  <<statusJob(dest, t.Name, repoName, frOrg, t.Provider)>>
                \o foldoutJobsEveryEntry(t, Tail(repos))

\* part_000 511-522: the jobs of the foldouts of a repository target
RECURSIVE foldoutJobs(_, _)
foldoutJobs(t, repos) ==
    IF repos = <<>> THEN <<>>
    ELSE LET fr == Head(repos)
             dest == CleanJoin(t.Path, fr.Target)
             repoName == fr.Name[Len(fr.Name)]
             frOrg == IF Len(fr.Name) = 2 THEN fr.Name[1] ELSE t.Org
         IN  (IF isGitRepo(dest)
              THEN <<statusJob(dest, t.Name, repoName, frOrg, t.Provider)>>
              ELSE <<>>) \o foldoutJobs(t, Tail(repos))

\* part_000 493-497 and 525-529
addOrgKey(keys, k) == IF k \in Range(keys) THEN keys ELSE Append(keys, k)

\* part_000 474-531: the loop over the targets, with its early returns
RECURSIVE expandTargets(_, _, _)
expandTargets(ts, js, keys) ==
    IF ts = <<>> THEN [err |-> "", jobs |-> js, orgKeys |-> keys]
    ELSE LET t == Head(ts)
         IN  IF ~PathExists(t.Path)
             THEN [err |-> "path does not exist", jobs |-> <<>>, orgKeys |-> <<>>]
             ELSE IF t.Repo = ""
             THEN IF ReadDirFails(t.Path)
                  THEN expandTargets(Tail(ts), js, keys)
                  ELSE expandTargets(Tail(ts), js \o orgJobs(t, ReadDir(t.Path)),
                                     addOrgKey(keys, <<t.Provider, t.Org>>))
             ELSE LET fc == loadFoldout(t.Path)
                      own == IF isGitRepo(t.Path)
                             THEN <<statusJob(t.Path, t.Name, t.Repo, t.Org, t.Provider)>>
                             ELSE <<>>
                  IN  IF fc.err # ""
                      THEN [err |-> fc.err, jobs |-> <<>>, orgKeys |-> <<>>]
                      ELSE expandTargets(Tail(ts),
                                         js \o own \o foldoutJobs(t, fc.repos),
                                         addOrgKey(keys, <<t.Provider, t.Org>>))

\* part_000 738-768: the jobs of Pull; no existence check, a failing ReadDir
\* lists nothing
RECURSIVE pullPaths(_)
pullPaths(js) ==
    IF js = <<>> THEN <<>>
    ELSE <<[path |-> Head(js).path,
            ffOnly |-> GetFFOnly(ffOnly[Head(js).provider])]>> \o pullPaths(Tail(js))

RECURSIVE expandPull(_, _)
expandPull(ts, js) ==
    IF ts = <<>> THEN [err |-> "", jobs |-> js]
    ELSE LET t == Head(ts)
         IN  IF t.Repo = ""
             THEN expandPull(Tail(ts),
                             js \o pullPaths(orgJobs(t, IF ReadDirFails(t.Path) THEN <<>>
                                                        ELSE ReadDir(t.Path))))
             ELSE LET fc == loadFoldout(t.Path)
                      own == IF isGitRepo(t.Path)
                             THEN <<statusJob(t.Path, t.Name, t.Repo, t.Org, t.Provider)>>
                             ELSE <<>>
                  IN  IF fc.err # ""
                      THEN [err |-> fc.err, jobs |-> <<>>]
                      ELSE expandPull(Tail(ts),
                                      js \o pullPaths(own \o foldoutJobs(t, fc.repos)))

\* part_000 668-681: "" when fetch succeeds, else the first line of the
\* trimmed standard error (which may be empty)
gitFetchWithStderr(fetch) ==
    IF fetch.ok THEN ""
    ELSE IF fetch.stderr = <<>> THEN "" ELSE Head(fetch.stderr)

\* getRepoStatus with a failing fetch made fatal
getRepoStatusFetchFatal(path, target, org, name, provider, o) ==
    LET status == [Path |-> path, Target |-> target, Provider |-> provider,
                   Org |-> org, Name |-> name, Branch |-> "", Dirty |-> FALSE,
                   Ahead |-> 0, Behind |-> 0, CanFastForward |-> FALSE,
                   Archived |-> FALSE, Orphan |-> FALSE, RemoteError |-> "",
                   Error |-> ""]
    IN  IF ~o.branchOk
        THEN [status EXCEPT !.Error = "getting branch"]
        ELSE IF ~o.fetch.ok
        THEN [status EXCEPT !.Branch = "main", !.Error = "fetching"]
        ELSE IF o.dirty = "fail"
        THEN [status EXCEPT !.Branch = "main", !.Error = "checking status"]
        ELSE LET s2 == [status EXCEPT !.Branch = "main",
                                      !.Dirty = (o.dirty = "dirty")]
                 s3 == IF o.revList.kind = "counts"
                       THEN [s2 EXCEPT !.Ahead = o.revList.ahead,
                                       !.Behind = o.revList.behind]
                       ELSE s2
             IN  [s3 EXCEPT !.CanFastForward =
                      IF s3.Behind > 0
                      THEN o.ancestorOk \/ s3.Ahead = 0
                      ELSE TRUE]

\* getRepoStatus asking merge-base whatever the behind count is
getRepoStatusAlwaysMergeBase(path, target, org, name, provider, o) ==
    LET status == [Path |-> path, Target |-> target, Provider |-> provider,
                   Org |-> org, Name |-> name, Branch |-> "", Dirty |-> FALSE,
                   Ahead |-> 0, Behind |-> 0, CanFastForward |-> FALSE,
                   Archived |-> FALSE, Orphan |-> FALSE, RemoteError |-> "",
                   Error |-> ""]
    IN  IF ~o.branchOk
        THEN [status EXCEPT !.Error = "getting branch"]
        ELSE LET s1 == [status EXCEPT !.Branch = "main",
                                      !.RemoteError = gitFetchWithStderr(o.fetch)]
             IN  IF o.dirty = "fail"
                 THEN [s1 EXCEPT !.Error = "checking status"]
                 ELSE LET s2 == [s1 EXCEPT !.Dirty = (o.dirty = "dirty")]
                          s3 == IF o.revList.kind = "counts"
                                THEN [s2 EXCEPT !.Ahead = o.revList.ahead,
                                                !.Behind = o.revList.behind]
                                ELSE s2
                      IN  [s3 EXCEPT !.CanFastForward =
                               o.ancestorOk \/ s3.Ahead = 0]

\* getRepoStatus counting diverged whenever merge-base fails
getRepoStatusAncestorOnly(path, target, org, name, provider, o) ==
    LET st == getRepoStatusAlwaysMergeBase(path, target, org, name, provider, o)
    IN  IF st.Error # "" THEN st
        ELSE [st EXCEPT !.CanFastForward = IF st.Behind > 0 THEN o.ancestorOk ELSE TRUE]

\* part_000 581-653, as a function of what the five git commands answer
getRepoStatus(path, target, org, name, provider, o) ==
    LET status == [Path |-> path, Target |-> target, Provider |-> provider,
                   Org |-> org, Name |-> name, Branch |-> "", Dirty |-> FALSE,
                   Ahead |-> 0, Behind |-> 0, CanFastForward |-> FALSE,
                   Archived |-> FALSE, Orphan |-> FALSE, RemoteError |-> "",
                   Error |-> ""]
    IN  IF ~o.branchOk
        THEN [status EXCEPT !.Error = "getting branch"]
        ELSE LET s1 == [status EXCEPT !.Branch = "main",
                                      !.RemoteError = gitFetchWithStderr(o.fetch)]
             IN  IF o.dirty = "fail"
                 THEN [s1 EXCEPT !.Error = "checking status"]
                 ELSE LET s2 == [s1 EXCEPT !.Dirty = (o.dirty = "dirty")]
                          s3 == IF o.revList.kind = "counts"
                                THEN [s2 EXCEPT !.Ahead = o.revList.ahead,
                                                !.Behind = o.revList.behind]
                                ELSE s2
                      IN  [s3 EXCEPT !.CanFastForward =
                               IF s3.Behind > 0
                               THEN o.ancestorOk \/ s3.Ahead = 0
                               ELSE TRUE]

\* the commands of getRepoStatus with merge-base run whatever the behind
\* count is
gitCommandsAlwaysMergeBase(o) ==
    IF ~o.branchOk THEN <<"rev-parse">>
    ELSE IF o.dirty = "fail" THEN <<"rev-parse", "fetch", "status">>
    ELSE <<"rev-parse", "fetch", "status", "rev-list", "merge-base">>

\* the commands of getRepoStatus returning after a fetch that failed
gitCommandsFetchFatal(o) ==
    IF ~o.branchOk THEN <<"rev-parse">>
    ELSE IF ~o.fetch.ok THEN <<"rev-parse", "fetch">>
    ELSE IF o.dirty = "fail" THEN <<"rev-parse", "fetch", "status">>
    ELSE <<"rev-parse", "fetch", "status", "rev-list">>
         \o (IF o.revList.kind = "counts" /\ o.revList.behind > 0
             THEN <<"merge-base">> ELSE <<>>)

\* part_000 581-653: the git commands one run of getRepoStatus runs, in
\* order: rev-parse (592), fetch (604), status (612), rev-list (625) and,
\* when the behind count read from rev-list is positive, merge-base (640)
gitCommands(o) ==
    LET behind == IF o.revList.kind = "counts" THEN o.revList.behind ELSE 0
    IN  <<"rev-parse">>
        \o (IF ~o.branchOk THEN <<>>
            ELSE <<"fetch", "status">>
                 \o (IF o.dirty = "fail" THEN <<>>
                     ELSE <<"rev-list">>
                          \o (IF behind > 0 THEN <<"merge-base">> ELSE <<>>)))

\* what git can answer to the five commands of one status computation
FetchOutcomes ==
    {[ok |-> TRUE, stderr |-> <<>>], [ok |-> FALSE, stderr |-> <<>>],
     [ok |-> FALSE, stderr |-> <<"fatal">>],
     [ok |-> FALSE, stderr |-> <<"fatal", "hint">>]}

RevListOutcomes ==
    {[kind |-> "fail", ahead |-> 0, behind |-> 0],
     [kind |-> "malformed", ahead |-> 0, behind |-> 0]}
    \cup {[kind |-> "counts", ahead |-> a, behind |-> b] :
              a \in 0..MaxCount, b \in 0..MaxCount}

GitOutcomes ==
    [branchOk : BOOLEAN, fetch : FetchOutcomes, dirty : {"fail", "clean", "dirty"},
     revList : RevListOutcomes, ancestorOk : BOOLEAN]

(***************************************************************************)
(* The status computation on one repository, run twice. The local commands *)
(* (rev-parse, status, rev-list, merge-base) read the repository alone and  *)
(* answer the same as long as it is unchanged; git fetch goes through the   *)
(* network, fails or succeeds at each run, and when it succeeds moves the   *)
(* remote-tracking branch to the branch of the remote.                      *)
(***************************************************************************)
CountPairs == [ahead : 0..MaxCount, behind : 0..MaxCount]

\* tracked: the local branch against origin/<branch> as last fetched;
\* upstream: the local branch against the branch on the remote itself
RepoStates ==
    [branchOk : BOOLEAN, dirty : {"fail", "clean", "dirty"},
     revList : {"counts", "fail", "malformed"}, tracked : CountPairs,
     upstream : CountPairs, mergeBaseFails : BOOLEAN]

\* rev-list and merge-base with the remote-tracking branch as it was before
\* this run's fetch
AnswersBeforeFetch(f) ==
    [branchOk |-> repository.branchOk,
     fetch |-> f,
     dirty |-> repository.dirty,
     revList |-> IF repository.revList = "counts"
                 THEN [kind |-> "counts", ahead |-> repository.tracked.ahead,
                       behind |-> repository.tracked.behind]
                 ELSE [kind |-> repository.revList, ahead |-> 0, behind |-> 0],
     ancestorOk |-> repository.tracked.ahead = 0 /\ ~repository.mergeBaseFails]

\* part_000 591-643: what git answers to the commands of one run, in the
\* order getRepoStatus issues them: the fetch of line 604 comes before the
\* rev-list of line 625 and the merge-base of line 640
Answers(f) ==
    LET tr == IF f.ok THEN repository.upstream ELSE repository.tracked
    IN  [branchOk |-> repository.branchOk,
         fetch |-> f,
         dirty |-> repository.dirty,
         revList |-> IF repository.revList = "counts"
                     THEN [kind |-> "counts", ahead |-> tr.ahead, behind |-> tr.behind]
                     ELSE [kind |-> repository.revList, ahead |-> 0, behind |-> 0],
         ancestorOk |-> tr.ahead = 0 /\ ~repository.mergeBaseFails]

\* part_000 581-653: one run of getRepoStatus on the repository; the fetch is
\* issued only once the branch is resolved
RunStatus ==
    /\ Len(runs) < 2
    /\ \E f \in FetchOutcomes :
          /\ answers' = Append(answers, Answers(f))
          /\ runs' = Append(runs, getRepoStatus(W1, "a", "o1", "r", "gitea", Answers(f)))
          /\ repository' = IF repository.branchOk /\ f.ok
                           THEN [repository EXCEPT !.tracked = repository.upstream]
                           ELSE repository
          /\ issued' = Append(issued, gitCommands(Answers(f)))
    /\ UNCHANGED changed

\* somebody commits to the remote or edits the working tree between the runs
Disturb ==
    /\ Len(runs) = 1
    /\ ~changed
    /\ \/ \E u \in CountPairs :
             /\ u # repository.upstream
             /\ repository' = [repository EXCEPT !.upstream = u]
       \/ /\ repository.dirty # "fail"
          /\ repository' = [repository EXCEPT
                               !.dirty = IF @ = "clean" THEN "dirty" ELSE "clean"]
    /\ changed' = TRUE
    /\ UNCHANGED <<answers, runs, issued>>

StatusInit ==
    /\ repository \in RepoStates
    /\ answers = <<>>
    /\ runs = <<>>
    /\ changed = FALSE
    /\ issued = <<>>

\* no status computation of this kind is under way
StatusIdle ==
    /\ repository = [branchOk |-> TRUE, dirty |-> "clean", revList |-> "counts",
               tracked |-> [ahead |-> 0, behind |-> 0],
               upstream |-> [ahead |-> 0, behind |-> 0], mergeBaseFails |-> FALSE]
    /\ answers = <<>>
    /\ runs = <<>>
    /\ changed = FALSE
    /\ issued = <<>>

StatusNext ==
    \/ RunStatus /\ UNCHANGED <<poolVars, mgrVars, foVars, cfVars>>
    \/ Disturb /\ UNCHANGED <<poolVars, mgrVars, foVars, cfVars>>

\* part_000 104-122: the index, or an error at the first listing that fails
RECURSIVE buildRepoIndex(_)
buildRepoIndex(keys) ==
    IF keys = <<>> THEN [err |-> "", index |-> <<>>]
    ELSE LET k == Head(keys)
             rest == buildRepoIndex(Tail(keys))
         IN  IF ~remote[k].ok
             THEN [err |-> "listing repos", index |-> <<>>]
             ELSE IF rest.err # "" THEN rest
             ELSE [err |-> "",
                   index |-> <<[key |-> k, repos |-> remote[k].repos]>> \o rest.index]

\* markRemoteState setting Archived where the name is known and nothing else
markOneArchivedOnly(st, index) ==
    LET hits == {i \in 1..Len(index) : index[i].key = <<st.Provider, st.Org>>}
    IN  IF hits = {} THEN st
        ELSE LET repos == index[CHOOSE i \in hits : TRUE].repos
             IN  IF st.Name \in DOMAIN repos
                 THEN [st EXCEPT !.Archived = repos[st.Name]]
                 ELSE st

\* part_000 106-115: the listings buildRepoIndex asks for, up to the first
\* that fails
RECURSIVE indexCalls(_)
indexCalls(keys) ==
    IF keys = <<>> THEN <<>>
    ELSE <<[call |-> "ListOrgRepos", key |-> Head(keys), name |-> ""]>>
         \o (IF remote[Head(keys)].ok THEN indexCalls(Tail(keys)) ELSE <<>>)

\* markRemoteState marking orphan what it finds archived
markOneArchivedOrphan(st, index) ==
    LET m == markOneArchivedOnly(st, index)
    IN  [m EXCEPT !.Orphan = m.Archived]

\* part_000 709-723
markOne(st, index) ==
    LET hits == {i \in 1..Len(index) : index[i].key = <<st.Provider, st.Org>>}
    IN  IF hits = {} THEN [st EXCEPT !.Orphan = TRUE]
        ELSE LET repos == index[CHOOSE i \in hits : TRUE].repos
             IN  IF st.Name \in DOMAIN repos
                 THEN [st EXCEPT !.Archived = repos[st.Name]]
                 ELSE [st EXCEPT !.Orphan = TRUE]

markRemoteState(sts, index) == [i \in 1..Len(sts) |-> markOne(sts[i], index)]

\* part_000 557-562: the less function of the sort
statusLess(s1, s2) ==
    IF s1.Target = s2.Target THEN StrLess(s1.Name, s2.Name)
    ELSE StrLess(s1.Target, s2.Target)

\* the orders sort.Slice can leave sts in: sort.Slice is not stable, so
\* statuses with equal keys may end in any order
IndexPerms(n) == {p \in [1..n -> 1..n] : \A i, j \in 1..n : i # j => p[i] # p[j]}

sortedStatuses(sts) ==
    {[i \in 1..Len(sts) |-> sts[p[i]]] : p \in
        {q \in IndexPerms(Len(sts)) :
            \A i, j \in 1..Len(sts) : i < j => ~statusLess(sts[q[j]], sts[q[i]])}}

\* optMap answering with the options of the first target, whatever the name
optMapProviderFirst(name) == targets[1].Provider

\* part_000 846-849: the provider whose options optMap holds for a target name
optMapProvider(name) ==
    LET hits == {i \in 1..Len(targets) : targets[i].Name = name}
    IN  targets[CHOOSE i \in hits : \A k \in hits : k <= i].Provider

gitOp(op, i, path, ff, ok) ==
    [op |-> op, idx |-> i, path |-> path, ffOnly |-> ff, ok |-> ok]

\* the loop of Sync without its check of Dirty
syncOneDirtyNotSkipped(st, ff, i, pullOk, pushOk) ==
    IF st.Error # "" THEN [ops |-> <<>>, count |-> "failed"]
    ELSE IF st.Behind > 0 /\ ~st.CanFastForward /\ ff
    THEN [ops |-> <<>>, count |-> "skipped"]
    ELSE LET pull == IF st.Behind > 0
                     THEN <<gitOp("pull", i, st.Path, ff, pullOk)>> ELSE <<>>
             push == IF st.Ahead > 0
                     THEN <<gitOp("push", i, st.Path, FALSE, pushOk)>> ELSE <<>>
         IN  IF st.Behind > 0 /\ ~pullOk
             THEN [ops |-> pull, count |-> "failed"]
             ELSE IF st.Ahead > 0 /\ ~pushOk
             THEN [ops |-> pull \o push, count |-> "failed"]
             ELSE [ops |-> pull \o push, count |-> "synced"]

\* the loop of Sync counting nothing for a repository it has nothing to do on
syncOneIdleUncounted(st, ff, i, pullOk, pushOk) ==
    IF st.Error # "" THEN [ops |-> <<>>, count |-> "failed"]
    ELSE IF st.Dirty THEN [ops |-> <<>>, count |-> "skipped"]
    ELSE IF st.Behind > 0 /\ ~st.CanFastForward /\ ff
    THEN [ops |-> <<>>, count |-> "skipped"]
    ELSE IF st.Behind = 0 /\ st.Ahead = 0 THEN [ops |-> <<>>, count |-> "nothing"]
    ELSE LET pull == IF st.Behind > 0
                     THEN <<gitOp("pull", i, st.Path, ff, pullOk)>> ELSE <<>>
             push == IF st.Ahead > 0
                     THEN <<gitOp("push", i, st.Path, FALSE, pushOk)>> ELSE <<>>
         IN  IF st.Behind > 0 /\ ~pullOk
             THEN [ops |-> pull, count |-> "failed"]
             ELSE IF st.Ahead > 0 /\ ~pushOk
             THEN [ops |-> pull \o push, count |-> "failed"]
             ELSE [ops |-> pull \o push, count |-> "synced"]

\* part_000 852-888: one iteration of the loop of Sync, for the status at
\* index i; pullOk and pushOk are what git pull and git push answer
syncOne(st, ff, i, pullOk, pushOk) ==
    IF st.Error # "" THEN [ops |-> <<>>, count |-> "failed"]
    ELSE IF st.Dirty THEN [ops |-> <<>>, count |-> "skipped"]
    ELSE IF st.Behind > 0 /\ ~st.CanFastForward /\ ff
    THEN [ops |-> <<>>, count |-> "skipped"]
    ELSE LET pull == IF st.Behind > 0
                     THEN <<gitOp("pull", i, st.Path, ff, pullOk)>> ELSE <<>>
             push == IF st.Ahead > 0
                     THEN <<gitOp("push", i, st.Path, FALSE, pushOk)>> ELSE <<>>
         IN  IF st.Behind > 0 /\ ~pullOk
             THEN [ops |-> pull, count |-> "failed"]
             ELSE IF st.Ahead > 0 /\ ~pushOk
             THEN [ops |-> pull \o push, count |-> "failed"]
             ELSE [ops |-> pull \o push, count |-> "synced"]

\* the loop of Push without its check of Behind
pushOneBehindNotSkipped(st, i, pushOk) ==
    IF st.Error # "" THEN [ops |-> <<>>, count |-> "failed"]
    ELSE IF st.Ahead = 0 THEN [ops |-> <<>>, count |-> "nothing"]
    ELSE [ops |-> <<gitOp("push", i, st.Path, FALSE, pushOk)>>,
          count |-> IF pushOk THEN "pushed" ELSE "failed"]

\* part_000 809-830: one iteration of the loop of Push
pushOne(st, i, pushOk) ==
    IF st.Error # "" THEN [ops |-> <<>>, count |-> "failed"]
    ELSE IF st.Behind > 0 THEN [ops |-> <<>>, count |-> "skipped"]
    ELSE IF st.Ahead = 0 THEN [ops |-> <<>>, count |-> "nothing"]
    ELSE [ops |-> <<gitOp("push", i, st.Path, FALSE, pushOk)>>,
          count |-> IF pushOk THEN "pushed" ELSE "failed"]

Bump(c, field) == IF field = "nothing" THEN c ELSE [c EXCEPT ![field] = @ + 1]

\* part_000 415-454: one iteration of the loop of Status
statusOne(st, c) ==
    IF st.Error # "" THEN Bump(c, "errored")
    ELSE LET c1 == IF st.Dirty THEN Bump(c, "dirty") ELSE c
             c2 == IF st.Ahead > 0 THEN Bump(c1, "ahead") ELSE c1
             c3 == IF st.Behind > 0 THEN Bump(c2, "behind") ELSE c2
             c4 == IF st.Behind > 0 /\ ~st.CanFastForward
                   THEN Bump(c3, "diverged") ELSE c3
             flagged == \/ st.Dirty \/ st.Ahead > 0 \/ st.Behind > 0
                        \/ st.RemoteError # "" \/ st.Archived \/ st.Orphan
         IN  IF flagged THEN c4 ELSE Bump(c4, "clean")

ZeroCounts ==
    [synced |-> 0, skipped |-> 0, failed |-> 0, pushed |-> 0, pulled |-> 0,
     clean |-> 0, dirty |-> 0, ahead |-> 0, behind |-> 0, diverged |-> 0,
     errored |-> 0]

\* what a command is given and never changes
argVars == <<cmd, targetNames, cfgTargets, ffOnly, manifest, remote, broken,
             excludeEmpty, includeArchived>>

inputVars == <<argVars, fsKind>>

\* targetsFor and the expansion of the targets, up to the call of pool.Run:
\* part_000 405-412 and 469-535 (Status), 798-806 (Push), 836-843 (Sync),
\* 727-773 (Pull)
BeginCommand ==
    /\ mpc = "start"
    /\ LET sel == targetsFor(targetNames)
           ex == expandTargets(sel.targets, <<>>, <<>>)
           pl == expandPull(sel.targets, <<>>)
       IN  IF sel.err # ""
           THEN /\ retErr' = sel.err
                /\ mpc' = "done"
                /\ UNCHANGED <<targets, statusJobs, orgKeys, pullJobs, pending>>
           ELSE /\ targets' = sel.targets
                /\ IF cmd \in {"clone", "list"}
                   THEN /\ retErr' = ""
                        /\ mpc' = IF cmd = "clone" THEN "cloning" ELSE "listing"
                        /\ UNCHANGED <<statusJobs, orgKeys, pullJobs, pending>>
                   ELSE IF cmd = "pull"
                   THEN /\ retErr' = pl.err
                        /\ pullJobs' = pl.jobs
                        /\ pending' = 1..Len(pl.jobs)
                        /\ mpc' = IF pl.err # "" \/ Len(pl.jobs) = 0
                                  THEN "done" ELSE "pulling"
                        /\ UNCHANGED <<statusJobs, orgKeys>>
                   ELSE /\ retErr' = ex.err
                        /\ statusJobs' = ex.jobs
                        /\ orgKeys' = ex.orgKeys
                        /\ pending' = 1..Len(ex.jobs)
                        /\ mpc' = IF ex.err # "" THEN "done"
                                  ELSE IF Len(ex.jobs) = 0 THEN "tally"
                                  ELSE "statuses"
                        /\ UNCHANGED pullJobs
    /\ UNCHANGED <<inputVars, cloneJobs, remoteCalls, statuses, cursor, counts, gitLog>>

\* part_000 537-541: pool.Run hands back the result of one more job; the
\* jobs complete in any order
StatusJob(j) ==
    /\ mpc = "statuses"
    /\ j \in pending
    /\ \E o \in GitOutcomes :
          /\ statusJobs[j].path \in broken => ~o.branchOk
          /\ statuses' = Append(statuses,
                             getRepoStatus(statusJobs[j].path, statusJobs[j].target,
                                           statusJobs[j].org, statusJobs[j].name,
                                           statusJobs[j].provider, o))
    /\ pending' = pending \ {j}
    /\ UNCHANGED <<inputVars, cloneJobs, remoteCalls, mpc, targets, statusJobs, orgKeys, pullJobs, cursor,
                   counts, gitLog, retErr>>

\* part_000 543-570: the annotation by the remote index and the sort
FinishStatuses ==
    /\ mpc = "statuses"
    /\ pending = {}
    /\ LET built == buildRepoIndex(orgKeys)
           marked == IF Len(orgKeys) > 0 /\ built.err = ""
                     THEN markRemoteState(statuses, built.index)
                     ELSE statuses
       IN  statuses' \in sortedStatuses(marked)
    /\ remoteCalls' = remoteCalls \o indexCalls(orgKeys)
    /\ mpc' = "tally"
    /\ UNCHANGED <<inputVars, cloneJobs, targets, statusJobs, orgKeys, pullJobs, pending,
                   cursor, counts, gitLog, retErr>>

SyncStep ==
    /\ mpc = "tally"
    /\ cmd = "sync"
    /\ cursor < Len(statuses)
    /\ \E pullOk \in BOOLEAN, pushOk \in BOOLEAN :
          LET st == statuses[cursor + 1]
              r == syncOne(st, GetFFOnly(ffOnly[optMapProvider(st.Target)]),
                           cursor + 1, pullOk, pushOk)
          IN  /\ gitLog' = gitLog \o r.ops
              /\ counts' = Bump(counts, r.count)
    /\ cursor' = cursor + 1
    /\ UNCHANGED <<inputVars, cloneJobs, remoteCalls, mpc, targets, statusJobs, orgKeys, pullJobs, pending,
                   statuses, retErr>>

PushStep ==
    /\ mpc = "tally"
    /\ cmd = "push"
    /\ cursor < Len(statuses)
    /\ \E pushOk \in BOOLEAN :
          LET r == pushOne(statuses[cursor + 1], cursor + 1, pushOk)
          IN  /\ gitLog' = gitLog \o r.ops
              /\ counts' = Bump(counts, r.count)
    /\ cursor' = cursor + 1
    /\ UNCHANGED <<inputVars, cloneJobs, remoteCalls, mpc, targets, statusJobs, orgKeys, pullJobs, pending,
                   statuses, retErr>>

StatusStep ==
    /\ mpc = "tally"
    /\ cmd = "status"
    /\ cursor < Len(statuses)
    /\ counts' = statusOne(statuses[cursor + 1], counts)
    /\ cursor' = cursor + 1
    /\ UNCHANGED <<inputVars, cloneJobs, remoteCalls, mpc, targets, statusJobs, orgKeys, pullJobs, pending,
                   statuses, gitLog, retErr>>

\* the summary line and `return nil` of Status, Push and Sync
FinishCommand ==
    /\ mpc = "tally"
    /\ cursor = Len(statuses)
    /\ mpc' = "done"
    /\ UNCHANGED <<inputVars, cloneJobs, remoteCalls, targets, statusJobs, orgKeys, pullJobs, pending,
                   statuses, cursor, counts, gitLog, retErr>>

\* part_000 775-781: one job of Pull, run by a worker of pool.Run
PullJob(j) ==
    /\ mpc = "pulling"
    /\ j \in pending
    /\ \E ok \in BOOLEAN :
          gitLog' = Append(gitLog, gitOp("pull", j, pullJobs[j].path,
                                         pullJobs[j].ffOnly, ok))
    /\ pending' = pending \ {j}
    /\ UNCHANGED <<inputVars, cloneJobs, remoteCalls, mpc, targets, statusJobs, orgKeys, pullJobs, statuses,
                   cursor, counts, retErr>>

\* part_000 783-794: the summary of Pull
FinishPull ==
    /\ mpc = "pulling"
    /\ pending = {}
    /\ counts' = [counts EXCEPT
                     !.pulled = Cardinality({k \in 1..Len(gitLog) : gitLog[k].ok}),
                     !.failed = Cardinality({k \in 1..Len(gitLog) : ~gitLog[k].ok})]
    /\ mpc' = "done"
    /\ UNCHANGED <<inputVars, cloneJobs, remoteCalls, targets, statusJobs, orgKeys, pullJobs, pending,
                   statuses, cursor, gitLog, retErr>>

(***************************************************************************)
(* Clone and List, one target after the other.                             *)
(***************************************************************************)
KindIn(fs, path) == IF path \in DOMAIN fs THEN fs[path] ELSE "none"

SetKind(fs, path, kind) ==
    [q \in DOMAIN fs \cup {path} |-> IF q = path THEN kind ELSE fs[q]]

\* os.MkdirAll(path): fails on a file in the way, else makes the directories
\* that are missing
RECURSIVE MkdirAll(_, _, _)
MkdirAll(fs, path, n) ==
    IF n > Len(path) THEN [err |-> "", fs |-> fs]
    ELSE LET pre == SubSeq(path, 1, n)
         IN  IF KindIn(fs, pre) = "file" THEN [err |-> "not a directory", fs |-> fs]
             ELSE MkdirAll(IF KindIn(fs, pre) = "none" THEN SetKind(fs, pre, "dir")
                           ELSE fs,
                           path, n + 1)

remoteCall(call, key, name) == [call |-> call, key |-> key, name |-> name]

cloneJob(repoPath, repoName) == [repoPath |-> repoPath, repoName |-> repoName]

\* part_000 222-241 and 325-337: a repository left out of the clone
filteredOut(listing, name) ==
    \/ (name \in listing.empty /\ excludeEmpty)
    \/ (listing.repos[name] /\ ~includeArchived)

\* part_000 219-241: the clone jobs of an organization target, the listing
\* sorted by name
RECURSIVE orgCloneJobs(_, _, _)
orgCloneJobs(t, listing, k) ==
    IF k > Len(NameOrder) THEN <<>>
    ELSE LET n == NameOrder[k]
             dest == Append(t.Path, n)
         IN  (IF n \in DOMAIN listing.repos /\ ~filteredOut(listing, n)
                 /\ ~isGitRepo(dest)
              THEN <<cloneJob(dest, n)>> ELSE <<>>)
             \o orgCloneJobs(t, listing, k + 1)

\* part_000 312-337: the clone jobs of the foldouts, with the GetRepo calls
\* made for them; a failing call ends the loop with an error
RECURSIVE foldoutCloneJobs(_, _, _, _)
foldoutCloneJobs(t, repos, js, asked) ==
    IF repos = <<>> THEN [err |-> "", jobs |-> js, calls |-> asked]
    ELSE LET fr == Head(repos)
             dest == CleanJoin(t.Path, fr.Target)
             key == <<t.Provider, fr.Name[1]>>
             listing == IF key \in DOMAIN remote THEN remote[key]
                        ELSE [ok |-> TRUE, repos |-> <<>>, empty |-> {}]
             made == Append(asked, remoteCall("GetRepo", key, fr.Name[2]))
         IN  IF isGitRepo(dest) THEN foldoutCloneJobs(t, Tail(repos), js, asked)
             ELSE IF ~listing.ok
             THEN [err |-> "fetching foldout repo", jobs |-> <<>>, calls |-> made]
             ELSE IF fr.Name[2] \notin DOMAIN listing.repos
                     \/ filteredOut(listing, fr.Name[2])
             THEN foldoutCloneJobs(t, Tail(repos), js, made)
             ELSE foldoutCloneJobs(t, Tail(repos),
                                   Append(js, cloneJob(dest, JoinSlash(fr.Name))),
                                   made)

\* part_000 187-199: Clone goes on to the next target
NextTarget ==
    /\ cursor' = cursor + 1
    /\ mpc' = "cloning"
    /\ cloneJobs' = <<>>
    /\ pending' = {}
    /\ retErr' = retErr

\* a callee returned an error and Clone returns it
CloneFails(err) ==
    /\ retErr' = err
    /\ mpc' = "done"
    /\ UNCHANGED <<cursor, cloneJobs, pending>>

\* pool.Run is called on the clone jobs
StartCloneJobs(js) ==
    /\ cloneJobs' = js
    /\ pending' = 1..Len(js)
    /\ mpc' = "clonejobs"
    /\ UNCHANGED <<cursor, retErr>>

\* part_000 203-245: cloneOrg up to its call of pool.Run
CloneOrgTarget ==
    /\ mpc = "cloning"
    /\ cursor < Len(targets)
    /\ targets[cursor + 1].Repo = ""
    /\ LET t == targets[cursor + 1]
           key == <<t.Provider, t.Org>>
           made == MkdirAll(fsKind, t.Path, 1)
           js == orgCloneJobs(t, remote[key], 1)
       IN  /\ remoteCalls' = Append(remoteCalls, remoteCall("ListOrgRepos", key, ""))
           /\ IF ~remote[key].ok
              THEN CloneFails("listing repos") /\ UNCHANGED fsKind
              ELSE IF made.err # ""
              THEN CloneFails("creating directory") /\ UNCHANGED fsKind
              ELSE /\ fsKind' = made.fs
                   /\ IF js = <<>> THEN NextTarget ELSE StartCloneJobs(js)
    /\ UNCHANGED <<argVars, targets, statusJobs, orgKeys, pullJobs, statuses, counts,
                   gitLog>>

\* part_000 271-308: cloneRepoWithFoldout up to the clone of the repository
\* itself
CloneRepoTarget ==
    /\ mpc = "cloning"
    /\ cursor < Len(targets)
    /\ targets[cursor + 1].Repo # ""
    /\ LET t == targets[cursor + 1]
           key == <<t.Provider, t.Org>>
           made == MkdirAll(fsKind, SubSeq(t.Path, 1, Len(t.Path) - 1), 1)
       IN  /\ remoteCalls' = Append(remoteCalls, remoteCall("GetRepo", key, t.Repo))
           /\ IF ~remote[key].ok
              THEN CloneFails("fetching repo") /\ UNCHANGED <<fsKind, gitLog>>
              ELSE IF t.Repo \notin DOMAIN remote[key].repos
              THEN CloneFails("repo not found") /\ UNCHANGED <<fsKind, gitLog>>
              ELSE IF filteredOut(remote[key], t.Repo)
              THEN NextTarget /\ UNCHANGED <<fsKind, gitLog>>
              ELSE IF made.err # ""
              THEN CloneFails("creating parent dir") /\ UNCHANGED <<fsKind, gitLog>>
              ELSE IF isGitRepo(t.Path)
              THEN /\ fsKind' = made.fs
                   /\ mpc' = "foldout"
                   /\ UNCHANGED <<gitLog, cursor, cloneJobs, pending, retErr>>
              ELSE \E ok \in BOOLEAN :
                     /\ gitLog' = Append(gitLog, gitOp("clone", 0, t.Path, FALSE, ok))
                     /\ IF ok
                        THEN /\ fsKind' = SetKind(made.fs, t.Path, "repo")
                             /\ mpc' = "foldout"
                             /\ UNCHANGED <<cursor, cloneJobs, pending, retErr>>
                        ELSE /\ fsKind' = made.fs
                             /\ CloneFails("git clone")
    /\ UNCHANGED <<argVars, targets, statusJobs, orgKeys, pullJobs, statuses, counts>>

\* part_000 310-346: the manifest of the repository cloned, its validation
\* and the clone jobs of its foldouts
CloneFoldout ==
    /\ mpc = "foldout"
    /\ LET t == targets[cursor + 1]
           fc == loadFoldout(t.Path)
           bad == cleanFoldoutTargets(fc.repos)
           fj == foldoutCloneJobs(t, fc.repos, <<>>, <<>>)
       IN  IF fc.err # "" THEN CloneFails(fc.err) /\ UNCHANGED remoteCalls
           ELSE IF ~fc.present THEN NextTarget /\ UNCHANGED remoteCalls
           ELSE IF bad # "" THEN CloneFails(bad) /\ UNCHANGED remoteCalls
           ELSE /\ remoteCalls' = remoteCalls \o fj.calls
                /\ IF fj.err # "" THEN CloneFails(fj.err)
                   ELSE IF fj.jobs = <<>> THEN NextTarget
                   ELSE StartCloneJobs(fj.jobs)
    /\ UNCHANGED <<inputVars, targets, statusJobs, orgKeys, pullJobs, statuses, counts,
                   gitLog>>

\* part_000 249-256 and 348-355: one clone job, run by a worker of pool.Run
CloneJob(j) ==
    /\ mpc = "clonejobs"
    /\ j \in pending
    /\ \E ok \in BOOLEAN :
          /\ gitLog' = Append(gitLog, gitOp("clone", j, cloneJobs[j].repoPath,
                                            FALSE, ok))
          /\ fsKind' = IF ok THEN SetKind(fsKind, cloneJobs[j].repoPath, "repo")
                       ELSE fsKind
    /\ pending' = pending \ {j}
    /\ UNCHANGED <<argVars, mpc, targets, statusJobs, orgKeys, pullJobs, statuses,
                   cursor, counts, retErr, cloneJobs, remoteCalls>>

\* part_000 258-268 and 356-363: the results are printed, the target is done
FinishCloneJobs ==
    /\ mpc = "clonejobs"
    /\ pending = {}
    /\ NextTarget
    /\ UNCHANGED <<inputVars, targets, statusJobs, orgKeys, pullJobs, statuses,
                   counts, gitLog, remoteCalls>>

\* part_000 200: return nil
FinishClone ==
    /\ mpc = "cloning"
    /\ cursor = Len(targets)
    /\ mpc' = "done"
    /\ UNCHANGED <<inputVars, targets, statusJobs, orgKeys, pullJobs, pending,
                   statuses, cursor, counts, gitLog, retErr, cloneJobs, remoteCalls>>

\* part_000 899-984: List prints one target: the listing of an organization
\* against its directory, or a repository and its foldouts
ListTarget ==
    /\ mpc = "listing"
    /\ cursor < Len(targets)
    /\ LET t == targets[cursor + 1]
           fc == loadFoldout(t.Path)
       IN  IF t.Repo = ""
           THEN /\ remoteCalls' = Append(remoteCalls,
                                         remoteCall("ListOrgRepos",
                                                    <<t.Provider, t.Org>>, ""))
                /\ cursor' = cursor + 1
                /\ UNCHANGED <<mpc, retErr>>
           ELSE /\ UNCHANGED remoteCalls
                /\ IF fc.err # ""
                   THEN retErr' = fc.err /\ mpc' = "done" /\ UNCHANGED cursor
                   ELSE cursor' = cursor + 1 /\ UNCHANGED <<mpc, retErr>>
    /\ UNCHANGED <<inputVars, targets, statusJobs, orgKeys, pullJobs, pending,
                   statuses, counts, gitLog, cloneJobs>>

\* part_000 987: return nil
FinishList ==
    /\ mpc = "listing"
    /\ cursor = Len(targets)
    /\ mpc' = "done"
    /\ UNCHANGED <<inputVars, targets, statusJobs, orgKeys, pullJobs, pending,
                   statuses, cursor, counts, gitLog, retErr, cloneJobs, remoteCalls>>

MgrNext ==
    \/ BeginCommand /\ UNCHANGED <<poolVars, stVars, foVars, cfVars>>
    \/ (\E j \in 1..Len(statusJobs) : StatusJob(j)) /\ UNCHANGED <<poolVars, stVars, foVars, cfVars>>
    \/ FinishStatuses /\ UNCHANGED <<poolVars, stVars, foVars, cfVars>>
    \/ SyncStep /\ UNCHANGED <<poolVars, stVars, foVars, cfVars>>
    \/ PushStep /\ UNCHANGED <<poolVars, stVars, foVars, cfVars>>
    \/ StatusStep /\ UNCHANGED <<poolVars, stVars, foVars, cfVars>>
    \/ FinishCommand /\ UNCHANGED <<poolVars, stVars, foVars, cfVars>>
    \/ (\E j \in 1..Len(pullJobs) : PullJob(j)) /\ UNCHANGED <<poolVars, stVars, foVars, cfVars>>
    \/ FinishPull /\ UNCHANGED <<poolVars, stVars, foVars, cfVars>>
    \/ CloneOrgTarget /\ UNCHANGED <<poolVars, stVars, foVars, cfVars>>
    \/ CloneRepoTarget /\ UNCHANGED <<poolVars, stVars, foVars, cfVars>>
    \/ CloneFoldout /\ UNCHANGED <<poolVars, stVars, foVars, cfVars>>
    \/ (\E j \in 1..Len(cloneJobs) : CloneJob(j)) /\ UNCHANGED <<poolVars, stVars, foVars, cfVars>>
    \/ FinishCloneJobs /\ UNCHANGED <<poolVars, stVars, foVars, cfVars>>
    \/ FinishClone /\ UNCHANGED <<poolVars, stVars, foVars, cfVars>>
    \/ ListTarget /\ UNCHANGED <<poolVars, stVars, foVars, cfVars>>
    \/ FinishList /\ UNCHANGED <<poolVars, stVars, foVars, cfVars>>

(***************************************************************************)
(* The configurations, layouts and remotes the commands are run on.        *)
(***************************************************************************)
OrgTarget(name, provider, org, path) ==
    [Name |-> name, Provider |-> provider, Org |-> org, Repo |-> "", Path |-> path]

RepoTarget(name, provider, org, repo, path) ==
    [Name |-> name, Provider |-> provider, Org |-> org, Repo |-> repo, Path |-> path]

\* the layout with the given kinds for w1, w1/x, w1/y and w2
Layout(k1, kx, ky, k2) ==
    [p \in LayoutPaths |->
        IF p = W1 THEN k1
        ELSE IF p = W2 THEN k2
        ELSE IF p = Append(W1, "x") THEN kx
        ELSE IF p = Append(W1, "y") THEN ky ELSE "none"]

NoManifest == [kind |-> "absent", repos |-> <<>>]

\* only the path at holds a .tugboat.json
ManifestAt(at, m) == [p \in LayoutPaths |-> IF p = at THEN m ELSE NoManifest]

\* only w1 holds a .tugboat.json
ManifestAtW1(m) == ManifestAt(W1, m)

Foldout(name, target) == [Name |-> name, Target |-> target]

RunScenarios ==
    {[cfg |-> <<OrgTarget("a", "gitea", "o1", W1)>>,
      fs |-> Layout("dir", "repo", "repo", "none"),
      mf |-> ManifestAtW1(NoManifest)],
     [cfg |-> <<OrgTarget("a", "gitea", "o1", W1),
                RepoTarget("b", "github", "o2", "r", W2)>>,
      fs |-> Layout("dir", "repo", "file", "repo"),
      mf |-> ManifestAtW1(NoManifest)],
     [cfg |-> <<RepoTarget("a", "gitea", "o1", "r", W1)>>,
      fs |-> Layout("repo", "repo", "dir", "none"),
      mf |-> ManifestAtW1([kind |-> "ok",
                           repos |-> <<Foldout(<<"o2", "x">>, <<>>),
                                       Foldout(<<"o1", "y">>, <<"y">>)>>])],
     \* the same manifest in a parent that is no working copy
     [cfg |-> <<RepoTarget("a", "gitea", "o1", "r", W1)>>,
      fs |-> Layout("dir", "repo", "dir", "none"),
      mf |-> ManifestAtW1([kind |-> "ok",
                           repos |-> <<Foldout(<<"o2", "x">>, <<>>),
                                       Foldout(<<"o1", "y">>, <<"y">>)>>])],
     [cfg |-> <<OrgTarget("a", "gitea", "o1", W1),
                OrgTarget("b", "github", "o2", W2)>>,
      \* w1/y is no working copy and holds the working copy w1/y/x
      fs |-> [Layout("dir", "repo", "dir", "none") EXCEPT ![Nested] = "repo"],
      mf |-> ManifestAtW1(NoManifest)],
     [cfg |-> <<OrgTarget("b", "github", "o2", W2),
                OrgTarget("a", "gitea", "o1", W1)>>,
      fs |-> Layout("dir", "dir", "none", "file"),
      mf |-> ManifestAtW1(NoManifest)],
     [cfg |-> <<OrgTarget("a", "gitea", "o1", W1),
                RepoTarget("b", "gitea", "o1", "x", Append(W1, "x"))>>,
      fs |-> Layout("dir", "repo", "none", "none"),
      mf |-> ManifestAtW1(NoManifest)],
     \* two foldouts with one repository name, from two organizations
     [cfg |-> <<RepoTarget("a", "gitea", "o1", "r", W1)>>,
      fs |-> Layout("dir", "repo", "repo", "none"),
      mf |-> ManifestAtW1([kind |-> "ok",
                           repos |-> <<Foldout(<<"o1", "x">>, <<"x">>),
                                       Foldout(<<"o2", "x">>, <<"y">>)>>])],
     \* a manifest whose only target holds ".."
     [cfg |-> <<RepoTarget("a", "gitea", "o1", "r", W1)>>,
      fs |-> Layout("dir", "repo", "none", "none"),
      mf |-> ManifestAtW1([kind |-> "ok",
                           repos |-> <<Foldout(<<"o1", "x">>,
                                               <<"..", "w1", "x">>)>>])],
     \* two foldouts with one destination, written x and ./x
     [cfg |-> <<RepoTarget("a", "gitea", "o1", "r", W1)>>,
      fs |-> Layout("repo", "none", "none", "none"),
      mf |-> ManifestAtW1([kind |-> "ok",
                           repos |-> <<Foldout(<<"o2", "x">>, <<"x">>),
                                       Foldout(<<"o1", "r">>, <<".", "x">>)>>])],
     \* a malformed manifest in the second target
     [cfg |-> <<OrgTarget("a", "gitea", "o1", W1),
                RepoTarget("b", "gitea", "o1", "r", W2)>>,
      fs |-> Layout("dir", "repo", "none", "repo"),
      mf |-> ManifestAt(W2, [kind |-> "malformed", repos |-> <<>>])]}

RunNames == {<<>>, <<"a", "a">>, <<"a", "zz">>, <<"zz", "a", "yy">>}

FFOnlyChoices ==
    {[p \in Providers |-> IF p = "gitea" THEN "false" ELSE "unset"],
     [p \in Providers |-> IF p = "gitea" THEN "true" ELSE "false"]}

\* repos: the names listed, each with its archived flag; empty: the names
\* among them of repositories without content
Listing(ok, repos, empty) == [ok |-> ok, repos |-> repos, empty |-> empty]

\* o1 on gitea holds r, x (archived) and y (empty); o2 on gitea holds x; the
\* organizations on github hold nothing; listing o1 on gitea succeeds or fails
RemoteChoices ==
    {[k \in Providers \X Orgs |->
         IF k = <<"gitea", "o1">>
         THEN Listing(up, [n \in {"r", "x", "y"} |-> n = "x"], {"y"})
         ELSE IF k = <<"gitea", "o2">>
         THEN Listing(TRUE, [n \in {"x"} |-> FALSE], {})
         ELSE Listing(TRUE, <<>>, {})] : up \in BOOLEAN}

\* no working copy is known to be broken, or w1/x is: a repository in which
\* git rev-parse --abbrev-ref HEAD fails
BrokenChoices == {{}, {Append(W1, "x")}}

MgrStart ==
    /\ mpc = "start"
    /\ targets = <<>>
    /\ statusJobs = <<>>
    /\ orgKeys = <<>>
    /\ pullJobs = <<>>
    /\ pending = {}
    /\ statuses = <<>>
    /\ cursor = 0
    /\ counts = ZeroCounts
    /\ gitLog = <<>>
    /\ retErr = ""
    /\ cloneJobs = <<>>
    /\ remoteCalls = <<>>

RunInit ==
    /\ cmd \in {"status", "sync", "push", "pull", "clone", "list"}
    /\ targetNames \in RunNames
    /\ \E sc \in RunScenarios :
          /\ cfgTargets = sc.cfg
          /\ fsKind = sc.fs
          /\ manifest = sc.mf
    /\ ffOnly \in FFOnlyChoices
    /\ remote \in RemoteChoices
    /\ broken \in (IF cmd \in {"status", "pull"} THEN BrokenChoices ELSE {{}})
    /\ excludeEmpty \in (IF cmd = "clone" THEN BOOLEAN ELSE {FALSE})
    /\ includeArchived \in (IF cmd \in {"clone", "list"} THEN BOOLEAN ELSE {FALSE})
    /\ MgrStart

\* the state of a process that runs no command
MgrQuiet ==
    /\ cmd = "none"
    /\ targetNames = <<>>
    /\ cfgTargets = <<>>
    /\ ffOnly = [p \in Providers |-> "unset"]
    /\ broken = {}
    /\ remote = [k \in Providers \X Orgs |-> Listing(TRUE, <<>>, {})]
    /\ excludeEmpty = FALSE
    /\ includeArchived = FALSE
    /\ mpc = "idle"
    /\ targets = <<>>
    /\ statusJobs = <<>>
    /\ orgKeys = <<>>
    /\ pullJobs = <<>>
    /\ pending = {}
    /\ statuses = <<>>
    /\ cursor = 0
    /\ counts = ZeroCounts
    /\ gitLog = <<>>
    /\ retErr = ""
    /\ cloneJobs = <<>>
    /\ remoteCalls = <<>>

MgrIdle ==
    /\ MgrQuiet
    /\ fsKind = Layout("none", "none", "none", "none")
    /\ manifest = ManifestAtW1(NoManifest)

(***************************************************************************)
(* The foldout manifest of one repository: part_000 311-324, loadFoldout,  *)
(* cleanFoldoutTargets and the local directory of each entry.              *)
(***************************************************************************)
\* the names tried, as strings.Split(name, "/") sees them: org/repo, "o1/",
\* "x" and "o1/x/y"
FoldoutNames == {<<"o1", "x">>, <<"o1", "">>, <<"x">>, <<"o1", "x", "y">>}

\* the targets tried: none given, "x", "y", "./x", ".", "../x", "a..b"
FoldoutTargets == {<<>>, <<"x">>, <<"y">>, <<".", "x">>, <<".">>,
                   <<"..", "x">>, <<"a..b">>}

\* what <w1>/.tugboat.json may hold: no file, no JSON, or up to MaxEntries
\* entries
FoldoutFiles ==
    {NoManifest, [kind |-> "malformed", repos |-> <<>>]}
    \cup {[kind |-> "ok", repos |-> rs] :
            rs \in SeqsUpTo({Foldout(n, t) : n \in FoldoutNames, t \in FoldoutTargets},
                            MaxEntries)}

NoFoldout == [err |-> "", present |-> FALSE, repos |-> <<>>]

FoldoutIdle ==
    /\ fopc = "idle"
    /\ loaded = NoFoldout
    /\ cleanErr = ""
    /\ dests = <<>>

\* the parent repository w1 and its manifest, before loadFoldout is called
FoldoutInit ==
    /\ MgrQuiet
    /\ \E k1 \in {"dir", "repo"}, kx \in {"none", "file", "repo"} :
          fsKind = Layout(k1, kx, "none", "none")
    /\ manifest \in {ManifestAtW1(m) : m \in FoldoutFiles}
    /\ fopc = "start"
    /\ loaded = NoFoldout
    /\ cleanErr = ""
    /\ dests = <<>>

\* part_000 311-317
LoadManifest ==
    /\ fopc = "start"
    /\ loaded' = loadFoldout(W1)
    /\ fopc' = "read"
    /\ UNCHANGED <<cleanErr, dests>>

\* part_000 318-320
ValidateManifest ==
    /\ fopc = "read"
    /\ loaded.err = ""
    /\ loaded.present
    /\ cleanErr' = cleanFoldoutTargets(loaded.repos)
    /\ fopc' = "validated"
    /\ UNCHANGED <<loaded, dests>>

\* part_000 322-324: dest := filepath.Join(t.Path, fr.Target) of each entry
ManifestDests ==
    /\ fopc = "validated"
    /\ cleanErr = ""
    /\ dests' = [i \in 1..Len(loaded.repos) |-> CleanJoin(W1, loaded.repos[i].Target)]
    /\ fopc' = "expanded"
    /\ UNCHANGED <<loaded, cleanErr>>

FoldoutNext ==
    \/ LoadManifest /\ UNCHANGED <<poolVars, mgrVars, stVars, cfVars>>
    \/ ValidateManifest /\ UNCHANGED <<poolVars, mgrVars, stVars, cfVars>>
    \/ ManifestDests /\ UNCHANGED <<poolVars, mgrVars, stVars, cfVars>>

(***************************************************************************)
(* The configuration: ReadV1 with its migration, ReadV2 with its           *)
(* validation, ToJSON. A JSON document is a record; a member that may be   *)
(* left out (omitempty) is <<>> when absent and <<v>> when present. A URL  *)
(* is the sequence of its pieces, "/" being one piece. Paths are sequences *)
(* of segments as above, "~" standing for the home directory.              *)
(***************************************************************************)
HomeDir == <<"home">>

\* a member of a JSON object read into a Go string: "" when absent
Member(opt) == IF opt = <<>> THEN "" ELSE opt[1]

\* a Go string written with omitempty
OmitEmpty(str) == IF str = "" THEN <<>> ELSE <<str>>

\* config.go 211-219
expandPath(path) ==
    IF Len(path) >= 2 /\ path[1] = "~" /\ homeOk
    THEN CleanJoin(HomeDir, Tail(path))
    ELSE path

\* strings.TrimSuffix(url, "/")
TrimSuffixSlash(url) ==
    IF url # <<>> /\ url[Len(url)] = "/" THEN SubSeq(url, 1, Len(url) - 1) ELSE url

NoConfig == [Workers |-> 0, Providers |-> <<>>, Targets |-> <<>>]

Failed(err) == [err |-> err, version |-> 0, cfg |-> NoConfig]

\* pool.go 192-220
migrateV1toV2(v1) ==
    [Workers |-> 0,
     Providers |-> [n \in {"gitea"} |->
                       [Type |-> "gitea", APIURL |-> TrimSuffixSlash(v1.gitea_url),
                        Token |-> v1.gitea_token, Protocol |-> "https",
                        FFOnly |-> "unset"]],
     Targets |-> [i \in 1..Len(v1.organizations) |->
                     [Name |-> v1.organizations[i].name, Provider |-> "gitea",
                      Org |-> v1.organizations[i].name, Repo |-> "",
                      Path |-> expandPath(v1.organizations[i].path)]]]

\* pool.go 170-189
ReadV1(doc) ==
    IF doc.kind = "malformed" THEN Failed("parsing v1 config")
    ELSE IF doc.gitea_url = <<>> THEN Failed("gitea_url is required")
    ELSE IF doc.gitea_token = "" THEN Failed("gitea_token is required")
    ELSE IF Len(doc.organizations) = 0
    THEN Failed("at least one organization must be configured")
    ELSE [err |-> "", version |-> 1, cfg |-> migrateV1toV2(doc)]

\* pool.go 88-108: one provider checked and given its defaults; the map is
\* gone through in no fixed order, so which error comes first is not fixed:
\* all are told by err # ""
normalizeProvider(pr) ==
    IF pr.Type \notin {"gitea", "github"} THEN [err |-> "unsupported type", p |-> pr]
    ELSE IF pr.Type = "gitea" /\ pr.APIURL = <<>>
    THEN [err |-> "requires api_url", p |-> pr]
    ELSE IF pr.Token = "" THEN [err |-> "requires token", p |-> pr]
    ELSE [err |-> "",
          p |-> [pr EXCEPT !.APIURL = IF pr.Type = "github" /\ pr.APIURL = <<>>
                                      THEN <<"api.github.com">> ELSE @,
                           !.Protocol = IF @ = "" THEN "https" ELSE @]]

\* pool.go 115-143: the loop over the targets
RECURSIVE normalizeTargets(_, _, _, _)
normalizeTargets(ts, providers, done, nameSet) ==
    IF ts = <<>> THEN [err |-> "", targets |-> done]
    ELSE LET t == Head(ts)
             name == IF t.Name # "" THEN t.Name
                     ELSE IF t.Repo # "" THEN t.Repo ELSE t.Org
         IN  IF t.Provider = "" THEN [err |-> "missing provider", targets |-> <<>>]
             ELSE IF t.Provider \notin DOMAIN providers
             THEN [err |-> "unknown provider", targets |-> <<>>]
             ELSE IF t.Org = "" THEN [err |-> "missing org", targets |-> <<>>]
             ELSE IF t.Path = <<>> THEN [err |-> "missing path", targets |-> <<>>]
             ELSE IF name \in nameSet
             THEN [err |-> "duplicate target name", targets |-> <<>>]
             ELSE normalizeTargets(Tail(ts), providers,
                                   Append(done, [t EXCEPT !.Name = name,
                                                          !.Path = expandPath(t.Path)]),
                                   nameSet \cup {name})

\* pool.go 81-146
validateAndNormalizeV2(cfg) ==
    LET nt == normalizeTargets(cfg.Targets, cfg.Providers, <<>>, {})
    IN  IF DOMAIN cfg.Providers = {} THEN Failed("at least one provider must be configured")
        ELSE IF \E n \in DOMAIN cfg.Providers : normalizeProvider(cfg.Providers[n]).err # ""
        THEN Failed("provider")
        ELSE IF Len(cfg.Targets) = 0 THEN Failed("at least one target must be configured")
        ELSE IF nt.err # "" THEN Failed(nt.err)
        ELSE [err |-> "", version |-> 2,
              cfg |-> [cfg EXCEPT
                         !.Providers = [n \in DOMAIN cfg.Providers |->
                                           normalizeProvider(cfg.Providers[n]).p],
                         !.Targets = nt.targets]]

\* json.Unmarshal of a v2 document into Config
UnmarshalV2(doc) ==
    [Workers |-> IF doc.workers = <<>> THEN 0 ELSE doc.workers[1],
     Providers |-> [n \in DOMAIN doc.providers |->
                       [Type |-> doc.providers[n].type,
                        APIURL |-> doc.providers[n].api_url,
                        Token |-> doc.providers[n].token,
                        Protocol |-> Member(doc.providers[n].protocol),
                        FFOnly |-> IF doc.providers[n].ff_only = <<>> THEN "unset"
                                   ELSE doc.providers[n].ff_only[1]]],
     Targets |-> [i \in 1..Len(doc.targets) |->
                     [Name |-> Member(doc.targets[i].name),
                      Provider |-> doc.targets[i].provider,
                      Org |-> doc.targets[i].org,
                      Repo |-> Member(doc.targets[i].repo),
                      Path |-> doc.targets[i].path]]]

\* pool.go 66-78
ReadV2(doc) ==
    IF doc.kind = "malformed" THEN Failed("parsing v2 config")
    ELSE validateAndNormalizeV2(UnmarshalV2(doc))

\* config.go 172-174: json.MarshalIndent of Config; name, repo, workers,
\* protocol and ff_only are left out when empty
ToJSON(cfg) ==
    [kind |-> "v2",
     workers |-> IF cfg.Workers = 0 THEN <<>> ELSE <<cfg.Workers>>,
     providers |-> [n \in DOMAIN cfg.Providers |->
                       [type |-> cfg.Providers[n].Type,
                        api_url |-> cfg.Providers[n].APIURL,
                        token |-> cfg.Providers[n].Token,
                        protocol |-> OmitEmpty(cfg.Providers[n].Protocol),
                        ff_only |-> IF cfg.Providers[n].FFOnly = "unset" THEN <<>>
                                    ELSE <<cfg.Providers[n].FFOnly>>]],
     targets |-> [i \in 1..Len(cfg.Targets) |->
                     [name |-> OmitEmpty(cfg.Targets[i].Name),
                      provider |-> cfg.Targets[i].Provider,
                      org |-> cfg.Targets[i].Org,
                      repo |-> OmitEmpty(cfg.Targets[i].Repo),
                      path |-> cfg.Targets[i].Path]]]

\* detect.go 20-43: a providers member makes a document v2, else a gitea_url
\* that is not empty makes it v1
DetectVersion(doc) ==
    IF doc.kind = "malformed" THEN [err |-> "parsing config", version |-> 0]
    ELSE IF doc.kind = "v2" THEN [err |-> "", version |-> 2]
    ELSE IF doc.gitea_url # <<>> THEN [err |-> "", version |-> 1]
    ELSE [err |-> "unrecognized config format", version |-> 0]

\* config.go 130-155
LoadFromBytes(doc) ==
    LET d == DetectVersion(doc)
    IN  IF d.err # "" THEN Failed(d.err)
        ELSE IF d.version = 1 THEN ReadV1(doc) ELSE ReadV2(doc)

\* the v1 documents tried
V1Docs ==
    {[kind |-> "v1", gitea_url |-> u, gitea_token |-> tk, organizations |-> os] :
        u \in {<<>>, <<"/">>, <<"u">>, <<"u", "/">>},
        tk \in {"", "tok"},
        os \in SeqsUpTo([name : {"", "o1", "o2"},
                         path : {<<>>, <<"p">>, <<"~", "p">>}], MaxTargets)}

\* the providers members tried: none, a gitea provider, a github provider
\* without api_url, a gitea provider without token
ProviderDocs ==
    {<<>>}
    \cup {[n \in {"gitea"} |->
              [type |-> ty, api_url |-> u, token |-> tk, protocol |-> <<>>,
               ff_only |-> <<>>]] :
            ty \in {"gitea", "github"}, u \in {<<>>, <<"u">>}, tk \in {"", "tok"}}

TargetDoc(n, p, o, r, d) == [name |-> n, provider |-> p, org |-> o, repo |-> r, path |-> d]

\* the targets members tried: named and unnamed organization and repository
\* targets, and targets without provider, organization or path
TargetDocs ==
    {TargetDoc(<<"a">>, "gitea", "o1", <<>>, <<"p">>),
     TargetDoc(<<>>, "gitea", "o1", <<>>, <<"~", "p">>),
     TargetDoc(<<>>, "gitea", "o1", <<"a">>, <<"p">>),
     TargetDoc(<<"o1">>, "gitea", "o2", <<"a">>, <<"p">>),
     TargetDoc(<<"a">>, "zz", "o1", <<>>, <<"p">>),
     TargetDoc(<<"a">>, "", "o1", <<>>, <<"p">>),
     TargetDoc(<<"a">>, "gitea", "", <<>>, <<"p">>),
     TargetDoc(<<"a">>, "gitea", "o1", <<>>, <<>>)}

\* the v2 documents tried
V2Docs ==
    {[kind |-> "v2", workers |-> <<>>, providers |-> ps, targets |-> ts] :
        ps \in ProviderDocs,
        ts \in SeqsUpTo(TargetDocs, MaxTargets)}

MalformedDoc == [kind |-> "malformed"]

ConfigIdle ==
    /\ cdoc = MalformedDoc
    /\ homeOk = TRUE
    /\ cpc = "idle"
    /\ loadResult = Failed("")
    /\ v2JSON = MalformedDoc
    /\ reloaded = Failed("")

\* the configuration file before tugboat reads it
ConfigInit ==
    /\ cdoc \in V1Docs \cup V2Docs \cup {MalformedDoc}
    /\ homeOk \in BOOLEAN
    /\ cpc = "start"
    /\ loadResult = Failed("")
    /\ v2JSON = MalformedDoc
    /\ reloaded = Failed("")

\* config.go 130-155
LoadConfig ==
    /\ cpc = "start"
    /\ loadResult' = LoadFromBytes(cdoc)
    /\ cpc' = "loaded"
    /\ UNCHANGED <<cdoc, homeOk, v2JSON, reloaded>>

\* part_005 314-330: tugboat migrate writes the configuration read from a
\* v1 file as a v2 document
Migrate ==
    /\ cpc = "loaded"
    /\ loadResult.err = ""
    /\ loadResult.version = 1
    /\ v2JSON' = ToJSON(loadResult.cfg)
    /\ cpc' = "migrated"
    /\ UNCHANGED <<cdoc, homeOk, loadResult, reloaded>>

\* the document written is the configuration file of the next command
Reload ==
    /\ cpc = "migrated"
    /\ reloaded' = LoadFromBytes(v2JSON)
    /\ cpc' = "reloaded"
    /\ UNCHANGED <<cdoc, homeOk, loadResult, v2JSON>>

ConfigNext ==
    \/ LoadConfig /\ UNCHANGED <<poolVars, mgrVars, stVars, foVars>>
    \/ Migrate /\ UNCHANGED <<poolVars, mgrVars, stVars, foVars>>
    \/ Reload /\ UNCHANGED <<poolVars, mgrVars, stVars, foVars>>

vars == <<poolVars, mgrVars, stVars, foVars, cfVars>>

\* a process about to run one command of the manager
Init == RunInit /\ PoolIdle /\ StatusIdle /\ FoldoutIdle /\ ConfigIdle

Next == MgrNext

Spec == Init /\ [][Next]_vars

\* a process about to call pool.Run
InitPool == PoolInit /\ MgrIdle /\ StatusIdle /\ FoldoutIdle /\ ConfigIdle

SpecPool == InitPool /\ [][PoolNext]_vars

\* getRepoStatus run twice on one repository
InitStatus == StatusInit /\ PoolIdle /\ MgrIdle /\ FoldoutIdle /\ ConfigIdle

SpecStatus == InitStatus /\ [][StatusNext]_vars

\* the manifest of one repository read, validated and expanded
InitFoldout == FoldoutInit /\ PoolIdle /\ StatusIdle /\ ConfigIdle

SpecFoldout == InitFoldout /\ [][FoldoutNext]_vars

\* a configuration file loaded, migrated when it is v1, and loaded again
InitConfig == ConfigInit /\ PoolIdle /\ MgrIdle /\ StatusIdle /\ FoldoutIdle

SpecConfig == InitConfig /\ [][ConfigNext]_vars

\* the Go scheduler runs every runnable goroutine eventually
FairPool ==
    /\ InitPool
    /\ [][PoolNext]_vars
    /\ WF_vars(Caller)
    /\ WF_vars(CloserStep)
    /\ \A w \in WorkerIds : WF_vars(Worker(w))

(***************************************************************************)
(* Claims about pool.Run.                                                  *)
(***************************************************************************)
\* the worker count Run is meant to use: the requested one when positive,
\* the number of processing units otherwise
Weff == IF workers > 0 THEN workers ELSE NumCPU

InProgress == {w \in WorkerIds : wpc[w] = "run"}

\* C5: Run with N >= 1 items invokes fn exactly once on every item and returns
\* exactly N results whose multiset is the multiset of fn's values over the
\* items; with zero items it returns an empty result and starts no worker.
C5_RunReturnsEveryResultOnce ==
    /\ \A i \in 1..Len(items) : calls[i] <= 1 /\ finished[i] <= calls[i]
    /\ pc = "done" /\ Len(items) >= 1 =>
          /\ \A i \in 1..Len(items) : calls[i] = 1 /\ finished[i] = 1
          /\ Len(ret) = Len(items)
          /\ \A r \in ResultVals :
                CountIn(ret, r) = Cardinality({i \in 1..Len(items) : fn[items[i]] = r})
    /\ Len(items) = 0 =>
          /\ started = 0
          /\ \A w \in WorkerIds : wpc[w] = "none"
          /\ pc = "done" => ret = <<>>

C5_Witness ==
    /\ pc = "done"
    /\ Len(items) = 2
    /\ nworkers = 2
    /\ Len(ret) = 2
    /\ ret[1] = fn[items[2]]
    /\ ret[1] # ret[2]

\* C6: at every moment the number of fn invocations in progress is at most
\* min(Weff, N), and exactly min(Weff, N) workers are started.
C6_AtMostMinWorkersActive ==
    /\ Cardinality(InProgress) <= Min(Weff, Len(items))
    /\ started <= Min(Weff, Len(items))
    /\ pc \in {"send", "gocloser", "collect", "done"} => started = Min(Weff, Len(items))

C6_Witness ==
    /\ workers <= 0
    /\ Len(items) = 2
    /\ Cardinality(InProgress) = 2
    /\ started = 2
    /\ pc = "collect"

\* C7: if every fn invocation terminates Run terminates, and Run never returns
\* before all N invocations completed and all N results were collected.
C7_RunTerminatesComplete ==
    /\ [](pc = "done" =>
             /\ \A i \in 1..Len(items) : finished[i] = 1
             /\ Len(ret) = Len(items))
    /\ (hang = 0) ~> (pc = "done")

C7_Witness ==
    /\ pc = "done"
    /\ hang = 0
    /\ Len(items) = 2
    /\ nworkers = 1
    /\ Len(ret) = 2

OthersFinished == \A i \in 1..Len(items) : i # hang => finished[i] = 1

\* C8 as claimed: for every N >= 2 and every worker count, when one fn
\* invocation never returns every other job still runs to completion.
C8_AsClaimed ==
    (hang # 0 /\ Len(items) >= 2) ~> OthersFinished

\* C8 amended: when one fn invocation never returns and min(Weff, N) >= 2
\* workers are started, every other job still runs to completion.
C8_HangBlocksOnlyItsWorker ==
    (hang # 0 /\ Min(Weff, Len(items)) >= 2) ~> OthersFinished

C8_Witness ==
    /\ hang = 1
    /\ Len(items) = 2
    /\ nworkers = 2
    /\ \E w \in WorkerIds : wpc[w] = "run" /\ witem[w] = hang
    /\ OthersFinished
    /\ pc = "collect"
    /\ Len(out) = 1


(***************************************************************************)
(* Claims about Sync, Push and the expansion of the targets.               *)
(***************************************************************************)
\* the entries of gitLog made for the status at index i
PullsAt(i) == {k \in 1..Len(gitLog) : gitLog[k].idx = i /\ gitLog[k].op = "pull"}

PushesAt(i) == {k \in 1..Len(gitLog) : gitLog[k].idx = i /\ gitLog[k].op = "push"}

\* the statuses the loop of Sync or Push has gone through
Tallied == 1..cursor

\* the loop of Sync or Push takes the status at index cursor + 1
TallyStep == mpc = "tally" /\ cursor' = cursor + 1

\* the ff-only policy of the provider of a status: on unless set to false
PolicyFFOnly(st) == ffOnly[st.Provider] # "false"

Diverged(st) == st.Error = "" /\ ~st.Dirty /\ st.Behind > 0 /\ ~st.CanFastForward

\* C1: Sync makes no git pull and no git push for a status that is dirty,
\* whatever its ahead and behind counts, and the step of the loop that takes a
\* dirty status adds one to skipped and to no other counter.
C1_SyncSkipsDirty ==
    /\ [](cmd = "sync" =>
            \A k \in 1..Len(gitLog) : ~statuses[gitLog[k].idx].Dirty)
    /\ [][(cmd = "sync" /\ TallyStep /\ statuses[cursor + 1].Dirty) =>
            (gitLog' = gitLog /\ counts' = [counts EXCEPT !.skipped = @ + 1])]_vars

C1_Witness ==
    /\ cmd = "sync"
    /\ mpc = "done"
    /\ Len(statuses) = 2
    /\ statuses[1].Dirty /\ statuses[1].Ahead = 1 /\ statuses[1].Behind = 1
    /\ ~statuses[2].Dirty /\ PullsAt(2) # {} /\ PushesAt(2) # {}
    /\ counts.skipped = 1

\* C2: in Sync, the step that takes a status without error, clean, behind > 0
\* and not fast-forwardable, while the ff-only policy of its provider is on,
\* makes no git pull and no git push and adds one to skipped only.
C2_SyncSkipsDiverged ==
    /\ [](cmd = "sync" =>
            \A k \in 1..Len(gitLog) :
                ~(Diverged(statuses[gitLog[k].idx])
                  /\ PolicyFFOnly(statuses[gitLog[k].idx])))
    /\ [][(/\ cmd = "sync"
           /\ TallyStep
           /\ Diverged(statuses[cursor + 1])
           /\ PolicyFFOnly(statuses[cursor + 1])) =>
            (gitLog' = gitLog /\ counts' = [counts EXCEPT !.skipped = @ + 1])]_vars

C2_Witness ==
    /\ cmd = "sync"
    /\ mpc = "done"
    /\ \E i \in 1..Len(statuses) :
          /\ Diverged(statuses[i])
          /\ ffOnly[statuses[i].Provider] = "unset"
          /\ statuses[i].Ahead = 1
          /\ PullsAt(i) = {} /\ PushesAt(i) = {}
    /\ counts.skipped >= 1

\* For every status Sync has gone through: at most one pull and one push, the
\* pull first; a pull exactly for a status without error, clean, behind > 0 and
\* not skipped as diverged; a push exactly for a status without error, clean,
\* ahead > 0 and either behind = 0 or a pull that succeeded.
SyncOpsPerStatus ==
    cmd = "sync" =>
        /\ \A k \in 1..Len(gitLog) : gitLog[k].idx \in Tallied
        /\ \A i \in Tallied :
              LET st == statuses[i]
                  usable == st.Error = "" /\ ~st.Dirty
              IN  /\ Cardinality(PullsAt(i)) <= 1
                  /\ Cardinality(PushesAt(i)) <= 1
                  /\ \A k1 \in PullsAt(i), k2 \in PushesAt(i) : k1 < k2
                  /\ PullsAt(i) # {} <=>
                         (/\ usable
                          /\ st.Behind > 0
                          /\ ~(~st.CanFastForward /\ PolicyFFOnly(st)))
                  /\ PushesAt(i) # {} <=>
                         (/\ usable
                          /\ st.Ahead > 0
                          /\ \/ st.Behind = 0
                             \/ \E k \in PullsAt(i) : gitLog[k].ok)

\* C3: for each repository (each local path), Sync makes at most one git pull
\* and at most one git push, the pull before the push, a pull exactly when the
\* repository is without error, clean, behind > 0 and not skipped as diverged,
\* and a push exactly when it is without error, clean, ahead > 0 and either
\* behind = 0 or the pull succeeded.
C3_AsClaimed ==
    /\ SyncOpsPerStatus
    /\ cmd = "sync" =>
          \A k1, k2 \in 1..Len(gitLog) :
              (gitLog[k1].path = gitLog[k2].path /\ gitLog[k1].op = gitLog[k2].op)
                  => k1 = k2

\* the pushes and the counters the loop of Push has made so far, given the
\* statuses that count
PushTally(counted) ==
    /\ \A k \in 1..Len(gitLog) : gitLog[k].op = "push" /\ gitLog[k].idx \in Tallied
    /\ \A i \in Tallied :
          /\ Cardinality(PushesAt(i)) <= 1
          /\ PushesAt(i) # {} <=>
                 (/\ statuses[i].Error = ""
                  /\ statuses[i].Behind = 0
                  /\ statuses[i].Ahead > 0)
    /\ counts.skipped = Cardinality({i \in Tallied : statuses[i].Behind > 0})
    /\ counts.pushed = Cardinality({k \in 1..Len(gitLog) : gitLog[k].ok})
    /\ counts.pushed + counts.skipped + counts.failed = Cardinality(counted)

\* C4 as stated: Push makes a git push exactly for a status without error,
\* with behind = 0 and ahead > 0; a status with behind > 0 is counted as
\* skipped; a status with ahead = 0 and behind = 0 is counted in none of
\* pushed, skipped and failed.
C4_AsClaimed ==
    cmd = "push" =>
        PushTally({i \in Tallied : ~(statuses[i].Ahead = 0 /\ statuses[i].Behind = 0)})

\* C4: Push makes a git push exactly for a status without error, with
\* behind = 0 and ahead > 0; a status with behind > 0 is counted as skipped
\* whatever its ahead count; a status without error with ahead = 0 and
\* behind = 0 is counted in none of pushed, skipped and failed, and a status
\* with an error is counted as failed.
C4_PushDecision ==
    cmd = "push" =>
        PushTally({i \in Tallied :
                      \/ statuses[i].Error # ""
                      \/ ~(statuses[i].Ahead = 0 /\ statuses[i].Behind = 0)})

C4_Witness ==
    /\ cmd = "push"
    /\ mpc = "done"
    /\ Len(statuses) = 2
    /\ statuses[1].Error # ""
    /\ statuses[2].Error = "" /\ statuses[2].Ahead = 1 /\ statuses[2].Behind = 0
    /\ PushesAt(2) # {}
    /\ counts.failed >= 1

\* C9: the status jobs handed to the pool have pairwise distinct paths.
C9_AsClaimed ==
    \A i, j \in 1..Len(statusJobs) :
        i # j => statusJobs[i].path # statusJobs[j].path

\* what a job and a status have in common
JobIdentity(j) ==
    [Path |-> j.path, Target |-> j.target, Org |-> j.org, Name |-> j.name,
     Provider |-> j.provider]

StatusIdentity(st) ==
    [Path |-> st.Path, Target |-> st.Target, Org |-> st.Org, Name |-> st.Name,
     Provider |-> st.Provider]

CommandRan == mpc = "done" /\ retErr = ""

\* A failing git command makes no command return an error, and every job is
\* examined and acted on: once the targets are expanded without error the
\* command returns no error; Status, Sync and Push end with one status per
\* job, all of them gone through by the loop; Pull ends with one pull per job.
FailuresStayLocal ==
    /\ mpc \in {"statuses", "tally", "pulling"} => retErr = ""
    /\ retErr # "" => (statuses = <<>> /\ gitLog = <<>>)
    /\ (CommandRan /\ cmd # "pull") =>
          /\ cursor = Len(statuses)
          /\ Len(statuses) = Len(statusJobs)
          /\ \A id \in {JobIdentity(statusJobs[j]) : j \in 1..Len(statusJobs)} :
                Cardinality({j \in 1..Len(statusJobs) :
                                JobIdentity(statusJobs[j]) = id})
                    = Cardinality({i \in 1..Len(statuses) :
                                      StatusIdentity(statuses[i]) = id})
    /\ (CommandRan /\ cmd = "pull") =>
          \A j \in 1..Len(pullJobs) :
              Cardinality({k \in 1..Len(gitLog) : gitLog[k].idx = j}) = 1

\* C10: a failing git command never makes Status, Sync, Push or Pull return an
\* error and never keeps another repository from being examined and acted on,
\* and a status run reports exactly one status for each repository location
\* (each path) it expanded.
C10_AsClaimed ==
    /\ FailuresStayLocal
    /\ (CommandRan /\ cmd # "pull") =>
          \A j \in 1..Len(statusJobs) :
              Cardinality({i \in 1..Len(statuses) :
                              statuses[i].Path = statusJobs[j].path}) = 1


(***************************************************************************)
(* Claims about the status computation of one repository.                  *)
(***************************************************************************)
\* the runs of getRepoStatus made so far
Runs == 1..Len(runs)

\* C11: a status of getRepoStatus has a fatal Error exactly when resolving the
\* branch failed or the dirty check failed; a failing fetch, rev-list or
\* merge-base alone sets no Error, and with no Error and a failed rev-list
\* Ahead and Behind are 0.
C11_FatalErrorOnlyBranchOrDirty ==
    \A k \in Runs :
        /\ runs[k].Error # "" <=>
               (~answers[k].branchOk \/ answers[k].dirty = "fail")
        /\ (runs[k].Error = "" /\ answers[k].revList.kind # "counts") =>
               (runs[k].Ahead = 0 /\ runs[k].Behind = 0)

C11_Witness ==
    /\ Len(runs) = 2
    /\ runs[1].Error = ""
    /\ ~answers[1].fetch.ok
    /\ answers[1].revList.kind = "fail"
    /\ repository.mergeBaseFails
    /\ runs[1].Ahead = 0 /\ runs[1].Behind = 0
    /\ repository.tracked.behind = 1

\* C12: when the fetch fails for a repository whose branch was resolved, the
\* status has a non-empty RemoteError, whatever git wrote to its error output.
C12_AsClaimed ==
    \A k \in Runs :
        (answers[k].branchOk /\ ~answers[k].fetch.ok) => runs[k].RemoteError # ""

\* C13 as stated: every status with Behind = 0 has CanFastForward true.
C13_AsClaimed ==
    \A k \in Runs : runs[k].Behind = 0 => runs[k].CanFastForward

\* C13: every status without a fatal Error and with Behind = 0 has
\* CanFastForward true, whatever its Ahead count and whatever merge-base
\* would answer.
C13_BehindZeroFastForward ==
    \A k \in Runs :
        (runs[k].Error = "" /\ runs[k].Behind = 0) => runs[k].CanFastForward

C13_Witness ==
    /\ Len(runs) >= 1
    /\ runs[1].Error = ""
    /\ runs[1].Behind = 0
    /\ runs[1].Ahead = 1
    /\ ~answers[1].ancestorOk
    /\ runs[1].CanFastForward

SameSnapshot(s1, s2) ==
    /\ s1.Branch = s2.Branch
    /\ s1.Dirty = s2.Dirty
    /\ s1.Ahead = s2.Ahead
    /\ s1.Behind = s2.Behind

KeyOf(st) == <<st.Provider, st.Org>>

\* buildRepoIndex was called and handed back an index
IndexBuilt == orgKeys # <<>> /\ \A k \in Range(orgKeys) : remote[k].ok

\* the index, once built, has an entry for the organization of st
HasEntry(st) == KeyOf(st) \in Range(orgKeys)

\* the annotation leaves everything but Archived and Orphan as it was
LocalFieldsKept(old, new) ==
    /\ StatusIdentity(new) = StatusIdentity(old)
    /\ new.Branch = old.Branch
    /\ new.Dirty = old.Dirty
    /\ new.Ahead = old.Ahead
    /\ new.Behind = old.Behind
    /\ new.CanFastForward = old.CanFastForward
    /\ new.RemoteError = old.RemoteError
    /\ new.Error = old.Error

\* new carries the annotation the remote record of its organization asks for
AnnotatedFrom(old, new) ==
    LET repos == remote[KeyOf(old)].repos
    IN  IF old.Name \in DOMAIN repos
        THEN new.Archived = repos[old.Name] /\ new.Orphan = old.Orphan
        ELSE new.Orphan /\ new.Archived = old.Archived

\* C15: the step that annotates and sorts the statuses hands back the same
\* statuses in some order with Branch, Dirty, Ahead, Behind, CanFastForward,
\* RemoteError and Error untouched; where the index has an entry for the
\* organization of a status, Orphan is set when the name is absent from it and
\* otherwise Archived is the remote flag and Orphan stays false.
C15_AnnotationByIndex ==
    [][(mpc = "statuses" /\ mpc' = "tally") =>
          \E p \in IndexPerms(Len(statuses)) :
              /\ Len(statuses') = Len(statuses)
              /\ \A i \in 1..Len(statuses) :
                    /\ LocalFieldsKept(statuses[p[i]], statuses'[i])
                    /\ ~statuses[p[i]].Orphan
                    /\ (IndexBuilt /\ HasEntry(statuses[p[i]])) =>
                           AnnotatedFrom(statuses[p[i]], statuses'[i])]_vars

C15_Witness ==
    /\ cmd = "status"
    /\ mpc = "done"
    /\ Len(statuses) = 2
    /\ statuses[1].Name = "x" /\ statuses[1].Archived /\ ~statuses[1].Orphan
    /\ statuses[1].Dirty /\ statuses[1].Ahead = 1 /\ statuses[1].RemoteError # ""
    /\ statuses[2].Name = "r" /\ statuses[2].Orphan /\ ~statuses[2].Archived
    /\ HasEntry(statuses[2])

\* the jobs were run and the statuses are the ones the status run hands back
StatusesReturned ==
    /\ cmd \in {"status", "sync", "push"}
    /\ mpc \in {"tally", "done"}
    /\ statusJobs # <<>>

\* C16: in the statuses a status run returns, every status whose organization
\* is unknown to the remote index, because listing it failed or because no
\* listing was asked for it, has Orphan = true.
C16_AsClaimed ==
    StatusesReturned =>
        \A i \in 1..Len(statuses) :
            (~HasEntry(statuses[i]) \/ ~remote[KeyOf(statuses[i])].ok)
                => statuses[i].Orphan

\* C17: when listing fails for one organization of a status run, the run
\* returns every local status without error and every status of an
\* organization whose listing succeeds is annotated: Orphan when its name is
\* absent from the listing, else Archived as listed.
C17_AsClaimed ==
    StatusesReturned =>
        /\ retErr = ""
        /\ Len(statuses) = Len(statusJobs)
        /\ \A i \in 1..Len(statuses) :
              (HasEntry(statuses[i]) /\ remote[KeyOf(statuses[i])].ok) =>
                  LET repos == remote[KeyOf(statuses[i])].repos
                  IN  IF statuses[i].Name \in DOMAIN repos
                      THEN statuses[i].Archived = repos[statuses[i].Name]
                           /\ ~statuses[i].Orphan
                      ELSE statuses[i].Orphan


(***************************************************************************)
(* Claims about the errors that abort a command.                           *)
(***************************************************************************)
\* the targets the command selects, when every requested name is configured
Selected == targetsFor(targetNames).targets

NamesKnown == \A k \in 1..Len(targetNames) :
                  \E i \in 1..Len(cfgTargets) : cfgTargets[i].Name = targetNames[k]

\* no git command was run: no status computed, no pull, push or clone
NoGitRun == statuses = <<>> /\ gitLog = <<>>

\* C19: in Status, Sync, Push and Pull, if the path of a selected target does
\* not exist, no git command is ever run and the command returns an error.
C19_AsClaimed ==
    (/\ cmd \in {"status", "sync", "push", "pull"}
     /\ NamesKnown
     /\ \E i \in 1..Len(Selected) : ~PathExists(Selected[i].Path))
        => (NoGitRun /\ (mpc = "done" => retErr # ""))

\* the same for the commands that go through getAllStatuses
MissingPathAbortsStatusRun ==
    (/\ cmd \in {"status", "sync", "push"}
     /\ NamesKnown
     /\ \E i \in 1..Len(Selected) : ~PathExists(Selected[i].Path))
        => (NoGitRun /\ (mpc = "done" => retErr # ""))


\* the requested names that are no configured target name, in their order
UnknownNames ==
    SelectSeq(targetNames,
              LAMBDA n : \A i \in 1..Len(cfgTargets) : cfgTargets[i].Name # n)

\* C18: in every command, when a requested name is no configured target name
\* the command returns an error that names the unknown targets and makes no
\* git invocation, no call to a remote provider and no change to the
\* filesystem; with no name requested every configured target is selected;
\* a name requested several times selects its target once.
C18_UnknownTargetsAbort ==
    /\ [](~NamesKnown =>
            /\ mpc \in {"start", "done"}
            /\ NoGitRun
            /\ remoteCalls = <<>>
            /\ targets = <<>>
            /\ mpc = "done" => retErr = "unknown targets: " \o JoinNames(UnknownNames))
    /\ [][~NamesKnown => fsKind' = fsKind]_vars
    /\ []((NamesKnown /\ mpc # "start") =>
            IF targetNames = <<>> THEN targets = cfgTargets
            ELSE /\ \A n \in Range(targetNames) :
                       Cardinality({i \in 1..Len(targets) : targets[i].Name = n}) = 1
                 /\ \A i \in 1..Len(targets) :
                       /\ targets[i].Name \in Range(targetNames)
                       /\ targets[i] \in Range(cfgTargets))

C18_Witness ==
    /\ cmd = "clone"
    /\ mpc = "done"
    /\ targetNames = <<"zz", "a", "yy">>
    /\ retErr = "unknown targets: zz, yy"
    /\ \E i \in 1..Len(cfgTargets) : cfgTargets[i].Name = "a"

\* a manifest the validation refuses: an empty target, a target holding "..",
\* or two entries with one target
InvalidTargets(repos) ==
    \E i \in 1..Len(repos) :
        \/ repos[i].Target = <<>>
        \/ \E k \in 1..Len(repos[i].Target) : repos[i].Target[k] = ".."
        \/ \E j \in 1..Len(repos) : j # i /\ repos[j].Target = repos[i].Target

\* the manifest of the repository target t is there and is malformed
MalformedManifest(t) ==
    /\ t.Repo # ""
    /\ KindOf(t.Path) \in {"dir", "repo"}
    /\ \/ ManifestOf(t.Path).kind = "malformed"
       \/ /\ ManifestOf(t.Path).kind = "ok"
          /\ \E i \in 1..Len(ManifestOf(t.Path).repos) :
                Len(ManifestOf(t.Path).repos[i].Name) # 2

\* the manifest of the repository target t is there and fails validation
InvalidManifest(t) ==
    /\ t.Repo # ""
    /\ KindOf(t.Path) \in {"dir", "repo"}
    /\ ManifestOf(t.Path).kind = "ok"
    /\ InvalidTargets(loadFoldout(t.Path).repos)

\* C20: in Status, Sync, Push, Pull and Clone, if the manifest of a selected
\* repository target is malformed or fails validation, no git command is ever
\* run and the command returns an error.
C20_AsClaimed ==
    (/\ cmd \in {"status", "sync", "push", "pull", "clone"}
     /\ NamesKnown
     /\ \E i \in 1..Len(Selected) :
           MalformedManifest(Selected[i]) \/ InvalidManifest(Selected[i]))
        => (NoGitRun /\ (mpc = "done" => retErr # ""))

\* what holds of it: a malformed manifest aborts Status, Sync, Push and Pull
\* before any git command
MalformedManifestAbortsRun ==
    (/\ cmd \in {"status", "sync", "push", "pull"}
     /\ NamesKnown
     /\ \E i \in 1..Len(Selected) : MalformedManifest(Selected[i]))
        => (NoGitRun /\ (mpc = "done" => retErr # ""))


\* the manifest file of the parent repository w1
ManifestFile == manifest[W1]

\* the directory a target names under its parent: "." and empty segments
\* name nothing
DirOf(target) == SelectSeq(target, LAMBDA sg : sg # "." /\ sg # "")

\* an entry refused as the rule is worded: an empty target, a ".." segment,
\* or the target directory of another entry
RefusedAsClaimed(repos) ==
    \E i \in 1..Len(repos) :
        \/ repos[i].Target = <<>>
        \/ \E k \in 1..Len(repos[i].Target) : repos[i].Target[k] = ".."
        \/ \E j \in 1..Len(repos) : j # i /\ DirOf(repos[j].Target) = DirOf(repos[i].Target)

\* C21: cleanFoldoutTargets returns an error if and only if some entry has an
\* empty target directory, or a target directory with a ".." segment, or two
\* entries share one target directory; every other manifest is accepted,
\* whatever the filesystem holds.
C21_AsClaimed ==
    fopc \in {"validated", "expanded"} =>
        (cleanErr # "" <=> RefusedAsClaimed(loaded.repos))

\* what holds of it: the entries are compared as text, and ".." is looked for
\* anywhere in the text
ValidationByText ==
    fopc \in {"validated", "expanded"} =>
        (cleanErr # "" <=>
            \E i \in 1..Len(loaded.repos) :
                \/ loaded.repos[i].Target = <<>>
                \/ \E k \in 1..Len(loaded.repos[i].Target) :
                      loaded.repos[i].Target[k] \in {"..", "a..b"}
                \/ \E j \in 1..Len(loaded.repos) :
                      j # i /\ loaded.repos[j].Target = loaded.repos[i].Target)

\* path is a directory strictly under base
StrictlyUnder(path, base) ==
    /\ Len(path) > Len(base)
    /\ SubSeq(path, 1, Len(base)) = base

\* C22: for every manifest accepted by validation, the local directories of
\* its entries are pairwise distinct and each lies strictly under the parent
\* repository.
C22_AsClaimed ==
    fopc = "expanded" =>
        /\ \A i, j \in 1..Len(dests) : i # j => dests[i] # dests[j]
        /\ \A i \in 1..Len(dests) : StrictlyUnder(dests[i], W1)

\* what holds of it: no local directory of an accepted manifest lies outside
\* the parent repository
DestsNotOutside ==
    fopc = "expanded" =>
        \A i \in 1..Len(dests) : dests[i] = W1 \/ StrictlyUnder(dests[i], W1)

\* C23: loadFoldout returns no manifest and no error when the file is absent,
\* and a manifest without entries for a file with zero entries; it returns an
\* error when the JSON is malformed or a name has not exactly two segments;
\* otherwise every entry returned has a non-empty target, the one given or,
\* when none was given, the repository segment of its name.
C23_AsClaimed ==
    fopc # "start" =>
        LET file == ManifestFile
            badName == \E i \in 1..Len(file.repos) : Len(file.repos[i].Name) # 2
        IN  /\ file.kind = "absent" => (loaded.err = "" /\ ~loaded.present)
            /\ (file.kind = "ok" /\ file.repos = <<>>) =>
                  (loaded.err = "" /\ loaded.present /\ loaded.repos = <<>>)
            /\ (file.kind = "malformed" \/ (file.kind = "ok" /\ badName)) =>
                  loaded.err # ""
            /\ (file.kind = "ok" /\ ~badName) =>
                  /\ loaded.err = ""
                  /\ loaded.present
                  /\ Len(loaded.repos) = Len(file.repos)
                  /\ \A i \in 1..Len(file.repos) :
                        /\ loaded.repos[i].Name = file.repos[i].Name
                        /\ loaded.repos[i].Target # <<>>
                        /\ loaded.repos[i].Target =
                              IF file.repos[i].Target # <<>>
                              THEN file.repos[i].Target
                              ELSE <<file.repos[i].Name[2]>>

\* what holds of it: the same, for names whose repository segment is not empty
LoadFoldoutOnFullNames ==
    (fopc # "start" /\ \A i \in 1..Len(ManifestFile.repos) :
                          /\ Len(ManifestFile.repos[i].Name) = 2
                          /\ ManifestFile.repos[i].Name[2] # "")
        => C23_AsClaimed


\* the status expansion of the command has gone through
Expanded ==
    /\ cmd \in {"status", "sync", "push"}
    /\ mpc \notin {"idle", "start"}
    /\ (retErr = "" \/ statusJobs # <<>>)

\* the jobs made for the target t
JobsOf(t) == SelectSeq(statusJobs, LAMBDA j : j.target = t.Name)

\* C24: for every organization target whose path can be listed, the status
\* expansion holds exactly one job for each immediate subdirectory that has a
\* .git directory, and no job for anything else: files, directories without
\* .git, paths nested deeper.
C24_OrgExpansion ==
    Expanded =>
        \A i \in 1..Len(Selected) :
            LET t == Selected[i]
                J == JobsOf(t)
            IN  (t.Repo = "" /\ KindOf(t.Path) \in {"dir", "repo"}) =>
                  /\ \A p \in DOMAIN fsKind :
                        Cardinality({k \in 1..Len(J) : J[k].path = p}) =
                            IF /\ Len(p) = Len(t.Path) + 1
                               /\ SubSeq(p, 1, Len(t.Path)) = t.Path
                               /\ fsKind[p] = "repo"
                            THEN 1 ELSE 0
                  /\ \A k \in 1..Len(J) : J[k].path \in DOMAIN fsKind

C24_Witness ==
    /\ Expanded
    /\ \E i \in 1..Len(Selected) :
          /\ Selected[i].Repo = ""
          /\ Selected[i].Path = W1
          /\ Len(JobsOf(Selected[i])) = 1
    /\ fsKind[Append(W1, "x")] = "repo"
    /\ fsKind[Append(W1, "y")] = "dir"
    /\ fsKind[Nested] = "repo"


\* the entries of the manifest of t, each with its target directory
EntriesOf(t) ==
    LET rs == ManifestOf(t.Path).repos
    IN  [i \in 1..Len(rs) |->
            [Name |-> rs[i].Name,
             Target |-> IF rs[i].Target = <<>> THEN <<rs[i].Name[2]>>
                        ELSE rs[i].Target]]

\* t is a repository target whose manifest is there and valid
ValidManifest(t) ==
    /\ t.Repo # ""
    /\ KindOf(t.Path) \in {"dir", "repo"}
    /\ ManifestOf(t.Path).kind = "ok"
    /\ \A i \in 1..Len(ManifestOf(t.Path).repos) :
          LET n == ManifestOf(t.Path).repos[i].Name
          IN  Len(n) = 2 /\ n[1] # "" /\ n[2] # ""
    /\ ~RefusedAsClaimed(EntriesOf(t))

\* the local directory of an entry of the manifest of t
EntryDir(t, e) == t.Path \o DirOf(e.Target)

\* the number of jobs that the status-style expansion of t owes to the path p
StatusStyleCount(t, p) ==
    (IF p = t.Path /\ KindOf(p) = "repo" THEN 1 ELSE 0)
    + Cardinality({i \in 1..Len(EntriesOf(t)) :
                      EntryDir(t, EntriesOf(t)[i]) = p /\ KindOf(p) = "repo"})

\* the status-style expansion of Status, Sync, Push and Pull: the parent if it
\* is a working copy, and the entries whose directory is a working copy
StatusStyleExpansion ==
    /\ Expanded =>
          \A i \in 1..Len(targets) :
              ValidManifest(targets[i]) =>
                  \A p \in DOMAIN fsKind :
                      Cardinality({k \in 1..Len(statusJobs) :
                                      /\ statusJobs[k].target = targets[i].Name
                                      /\ statusJobs[k].path = p})
                          = StatusStyleCount(targets[i], p)
    /\ (cmd = "pull" /\ mpc \notin {"idle", "start"} /\ Len(targets) = 1
        /\ (retErr = "" \/ pullJobs # <<>>)) =>
          (ValidManifest(targets[1]) =>
              \A p \in DOMAIN fsKind :
                  Cardinality({k \in 1..Len(pullJobs) : pullJobs[k].path = p})
                      = StatusStyleCount(targets[1], p))

\* Clone is through with its target number i and returned no error for it
Cloned(i) ==
    /\ cmd = "clone"
    /\ retErr = ""
    /\ \/ mpc = "done" /\ i <= Len(targets)
       \/ mpc = "cloning" /\ i <= cursor

\* git clone was run for the path p
CloneRunAt(p) == \E k \in 1..Len(gitLog) : gitLog[k].op = "clone" /\ gitLog[k].path = p

\* the remote repository named by the entry e of a manifest of target t is
\* not there, or the flags of Clone leave it out
LeftOut(t, e) ==
    LET l == remote[<<t.Provider, e.Name[1]>>]
    IN  \/ e.Name[2] \notin DOMAIN l.repos
        \/ e.Name[2] \in l.empty /\ excludeEmpty
        \/ l.repos[e.Name[2]] /\ ~includeArchived

CloneStyleStep ==
    (/\ mpc = "foldout"
     /\ mpc' \in {"clonejobs", "cloning"}
     /\ ValidManifest(targets[cursor + 1])) =>
        LET t == targets[cursor + 1]
            es == EntriesOf(t)
        IN  \A p \in DOMAIN fsKind :
                Cardinality({k \in 1..Len(cloneJobs') : cloneJobs'[k].repoPath = p})
                    = Cardinality({k \in 1..Len(es) :
                                      /\ EntryDir(t, es[k]) = p
                                      /\ KindOf(p) # "repo"
                                      /\ ~LeftOut(t, es[k])})

KeyBefore(s1, s2) ==
    \/ RankOf(s1.Target) < RankOf(s2.Target)
    \/ s1.Target = s2.Target /\ RankOf(s1.Name) < RankOf(s2.Name)

\* C26: the status list a status run returns is sorted by (target name,
\* repository name) and is the same for every order in which the workers
\* finish: two statuses are never left in an order that their keys do not
\* settle.
C26_AsClaimed ==
    StatusesReturned =>
        \A i, j \in 1..Len(statuses) :
            i < j => (KeyBefore(statuses[i], statuses[j]) \/ statuses[i] = statuses[j])

\* what holds of it: the list is sorted by (target name, repository name)
SortedByKey ==
    StatusesReturned =>
        \A i, j \in 1..Len(statuses) : i < j => ~KeyBefore(statuses[j], statuses[i])


\* C27: Pull does not run git pull in a repository that has a fatal status
\* error, here one whose branch cannot be resolved: such a repository is
\* skipped.
C27_AsClaimed ==
    cmd = "pull" =>
        \A k \in 1..Len(gitLog) :
            gitLog[k].op = "pull" => gitLog[k].path \notin broken

\* what holds of it: a status run reports the fatal error of such a repository
BrokenReportedFatal ==
    \A i \in 1..Len(statuses) :
        statuses[i].Path \in broken => statuses[i].Error # ""


\* the ff-only option of the provider of the target t is unset or true
FFOnlyOf(t) == ffOnly[t.Provider] \in {"unset", "true"}

\* the selected targets with the name n
TargetsNamed(n) == {t \in Range(targets) : t.Name = n}

\* the selected targets whose path holds the path p
TargetsHolding(p) ==
    {t \in Range(targets) :
        Len(t.Path) <= Len(p) /\ SubSeq(p, 1, Len(t.Path)) = t.Path}

\* C28: every git pull issued by Pull or Sync for a repository of a target
\* carries --ff-only if and only if the sync.ff_only option of the provider of
\* that target is unset or true.
C28_FFOnlyFlag ==
    /\ cmd = "sync" =>
          \A k \in 1..Len(gitLog) :
              gitLog[k].op = "pull" =>
                  /\ TargetsNamed(statuses[gitLog[k].idx].Target) # {}
                  /\ \A t \in TargetsNamed(statuses[gitLog[k].idx].Target) :
                        gitLog[k].ffOnly = FFOnlyOf(t)
    /\ cmd = "pull" =>
          \A k \in 1..Len(gitLog) :
              gitLog[k].op = "pull" =>
                  /\ TargetsHolding(gitLog[k].path) # {}
                  /\ \A t \in TargetsHolding(gitLog[k].path) :
                        gitLog[k].ffOnly = FFOnlyOf(t)

C28_Witness ==
    /\ cmd = "sync"
    /\ mpc = "done"
    /\ \E k1, k2 \in 1..Len(gitLog) :
          /\ gitLog[k1].op = "pull" /\ gitLog[k2].op = "pull"
          /\ ffOnly[statuses[gitLog[k1].idx].Provider] = "false"
          /\ ~gitLog[k1].ffOnly
          /\ ffOnly[statuses[gitLog[k2].idx].Provider] = "unset"
          /\ gitLog[k2].ffOnly


\* the remote record of the repository name of org on provider is archived
ArchivedRemote(provider, org, name) ==
    /\ name \in DOMAIN remote[<<provider, org>>].repos
    /\ remote[<<provider, org>>].repos[name]

\* C29: Sync, Pull and Push never run git pull or git push in a repository
\* whose remote record is archived.
C29_AsClaimed ==
    /\ cmd \in {"sync", "push"} =>
          \A k \in 1..Len(gitLog) :
              LET st == statuses[gitLog[k].idx]
              IN  /\ ~st.Archived
                  /\ ~ArchivedRemote(st.Provider, st.Org, st.Name)
    /\ cmd = "pull" =>
          \A k \in 1..Len(gitLog) :
              \A t \in TargetsHolding(gitLog[k].path) :
                  (t.Repo = "" /\ Len(gitLog[k].path) = Len(t.Path) + 1) =>
                      ~ArchivedRemote(t.Provider, t.Org,
                                      gitLog[k].path[Len(gitLog[k].path)])


\* the status at index i is without error, clean, not skipped as diverged, and
\* every operation Sync attempted on it succeeded
SyncedAsClaimed(i) ==
    LET st == statuses[i]
    IN  /\ st.Error = ""
        /\ ~st.Dirty
        /\ ~(Diverged(st) /\ PolicyFFOnly(st))
        /\ \A k \in PullsAt(i) \cup PushesAt(i) : gitLog[k].ok

\* C30: at the end of every Sync run synced + skipped + failed is the number
\* of statuses, every status being counted in exactly one of the three, and
\* synced counts exactly the statuses without error, clean, not skipped as
\* diverged, on which every operation attempted succeeded; a clean status with
\* ahead = 0 and behind = 0 is among them.
C30_SyncCounts ==
    /\ []((cmd = "sync" /\ mpc \in {"tally", "done"} /\ retErr = "") =>
            /\ counts.synced + counts.skipped + counts.failed = cursor
            /\ counts.synced = Cardinality({i \in Tallied : SyncedAsClaimed(i)})
            /\ mpc = "done" => cursor = Len(statuses))
    /\ [][(cmd = "sync" /\ TallyStep) =>
            \E f \in {"synced", "skipped", "failed"} :
                /\ counts' = [counts EXCEPT ![f] = @ + 1]
                /\ f = "synced" <=>
                       /\ statuses[cursor + 1].Error = ""
                       /\ ~statuses[cursor + 1].Dirty
                       /\ ~(Diverged(statuses[cursor + 1])
                            /\ PolicyFFOnly(statuses[cursor + 1]))
                       /\ \A k \in (Len(gitLog) + 1)..Len(gitLog') : gitLog'[k].ok]_vars

C30_Witness ==
    /\ cmd = "sync"
    /\ mpc = "done"
    /\ Len(statuses) = 2
    /\ statuses[1].Error = "" /\ ~statuses[1].Dirty
    /\ statuses[1].Ahead = 0 /\ statuses[1].Behind = 0
    /\ PullsAt(1) = {} /\ PushesAt(1) = {}
    /\ statuses[2].Error # ""
    /\ counts.synced = 1 /\ counts.failed = 1 /\ counts.skipped = 0

(***************************************************************************)
(* The configuration.                                                      *)
(***************************************************************************)
Loaded == cpc # "start" /\ cpc # "idle" /\ loadResult.err = ""

NamesOf(cfg) == [i \in 1..Len(cfg.Targets) |-> cfg.Targets[i].Name]

DistinctNames(cfg) ==
    \A i, j \in 1..Len(cfg.Targets) :
        /\ cfg.Targets[i].Name # ""
        /\ i # j => cfg.Targets[i].Name # cfg.Targets[j].Name

\* C31 as claimed: every configuration a successful load returns, read as v2
\* or migrated from v1, has target names that are not empty and pairwise
\* distinct
C31_AsClaimed == Loaded => DistinctNames(loadResult.cfg)

\* what holds: the configurations read from a v2 document have such names;
\* the organizations of a v1 document are taken over as they are
V2NamesDistinct ==
    Loaded /\ loadResult.version = 2 => DistinctNames(loadResult.cfg)

V2NamesDistinctSeen ==
    /\ Loaded /\ loadResult.version = 2
    /\ Len(loadResult.cfg.Targets) = 2

V2DuplicateRefused ==
    /\ cpc = "loaded" /\ cdoc.kind = "v2"
    /\ loadResult.err = "duplicate target name"

SameProvider(c, d) ==
    /\ DOMAIN c.Providers = DOMAIN d.Providers
    /\ \A n \in DOMAIN c.Providers :
           /\ c.Providers[n].Type = d.Providers[n].Type
           /\ c.Providers[n].APIURL = d.Providers[n].APIURL
           /\ c.Providers[n].Token = d.Providers[n].Token

SameTargets(c, d) ==
    /\ Len(c.Targets) = Len(d.Targets)
    /\ \A i \in 1..Len(c.Targets) :
           /\ c.Targets[i].Name = d.Targets[i].Name
           /\ c.Targets[i].Provider = d.Targets[i].Provider
           /\ c.Targets[i].Org = d.Targets[i].Org
           /\ c.Targets[i].Path = d.Targets[i].Path

RoundTrip ==
    /\ reloaded.err = ""
    /\ SameProvider(loadResult.cfg, reloaded.cfg)
    /\ SameTargets(loadResult.cfg, reloaded.cfg)

\* C32 as claimed: the configuration migrated from any v1 document ReadV1
\* accepts, written by ToJSON and read by ReadV2, is read without error and
\* has the same provider and the same targets in the same order
C32_AsClaimed == cpc = "reloaded" => RoundTrip

\* the migrated configurations validateAndNormalizeV2 would accept
MigratedValid ==
    /\ DistinctNames(loadResult.cfg)
    /\ \A i \in 1..Len(loadResult.cfg.Targets) : loadResult.cfg.Targets[i].Path # <<>>
    /\ loadResult.cfg.Providers["gitea"].APIURL # <<>>

\* what holds: the round trip of those
RoundTripOfValid == cpc = "reloaded" /\ MigratedValid => RoundTrip

RoundTripOfValidSeen ==
    /\ cpc = "reloaded" /\ MigratedValid
    /\ Len(loadResult.cfg.Targets) = 2
    /\ homeOk /\ cdoc.organizations[1].path = <<"~", "p">>

(***************************************************************************)
(* Clone.                                                                  *)
(***************************************************************************)
\* the step runs git clone
ClonesNow == cmd = "clone" /\ Len(gitLog') = Len(gitLog) + 1

ClonedPath == gitLog'[Len(gitLog')].path

\* C33 as claimed: git clone is never run on a path that is a working copy
\* already
C33_AsClaimed == [][ClonesNow => ~isGitRepo(ClonedPath)]_vars

\* the names of the listing of an organization target that Clone is to clone
ToClone(t) ==
    LET listing == remote[<<t.Provider, t.Org>>]
    IN  {n \in DOMAIN listing.repos :
            /\ ~(n \in listing.empty /\ excludeEmpty)
            /\ ~(listing.repos[n] /\ ~includeArchived)
            /\ KindOf(Append(t.Path, n)) # "repo"}

\* what holds: the clone jobs of an organization target are the repositories
\* of its listing that are not filtered out and have no working copy
OrgCloneJobsAsFiltered ==
    [][mpc = "cloning" /\ mpc' = "clonejobs" /\ targets[cursor + 1].Repo = ""
         => {cloneJobs'[j].repoName : j \in 1..Len(cloneJobs')}
                = ToClone(targets[cursor + 1])]_vars

\* a Clone that returned nil and in which no git clone failed
CloneSucceeded ==
    /\ cmd = "clone" /\ mpc = "done" /\ retErr = ""
    /\ \A k \in 1..Len(gitLog) : gitLog[k].ok

\* the git clone commands a Clone started now would run for the target
WouldClone(t) ==
    IF t.Repo = "" THEN ToClone(t) # {}
    ELSE /\ ~filteredOut(remote[<<t.Provider, t.Org>>], t.Repo)
         /\ \/ ~isGitRepo(t.Path)
            \/ foldoutCloneJobs(t, loadFoldout(t.Path).repos, <<>>, <<>>).jobs # <<>>

\* what holds: a Clone run after one that succeeded runs no git clone
SecondCloneIdle ==
    CloneSucceeded => \A i \in 1..Len(targets) : ~WouldClone(targets[i])

SecondCloneIdleSeen ==
    /\ CloneSucceeded
    /\ Len(gitLog) = 2

(***************************************************************************)
(* The git commands of one status computation.                             *)
(***************************************************************************)
CommandOrder == <<"rev-parse", "fetch", "status", "rev-list", "merge-base">>

RankOfCommand(c) == CHOOSE k \in 1..Len(CommandOrder) : CommandOrder[k] = c

InOrderOnce(cs) ==
    \A i, j \in 1..Len(cs) : i < j => RankOfCommand(cs[i]) < RankOfCommand(cs[j])

Ran(k, c) == \E i \in 1..Len(issued[k]) : issued[k][i] = c

\* C34: the commands of one status computation are run in the order
\* rev-parse, fetch, status, rev-list, merge-base, each at most once; none
\* after a rev-parse that failed, neither rev-list nor merge-base after a
\* status that failed, merge-base only with a behind count above zero
C34_CommandOrder ==
    \A k \in 1..Len(issued) :
        /\ InOrderOnce(issued[k])
        /\ ~answers[k].branchOk => issued[k] = <<"rev-parse">>
        /\ answers[k].dirty = "fail" => ~Ran(k, "rev-list") /\ ~Ran(k, "merge-base")
        /\ Ran(k, "merge-base") => runs[k].Behind > 0

C34_Witness ==
    \E k \in 1..Len(issued) :
        /\ issued[k] = CommandOrder
        /\ \E h \in 1..Len(issued) :
               answers[h].branchOk /\ answers[h].dirty # "fail" /\ ~Ran(h, "merge-base")

\* C35: a status without error and with a behind count above zero has
\* CanFastForward exactly when merge-base succeeded or the ahead count is
\* zero
C35_FastForwardRule ==
    \A k \in 1..Len(runs) :
        runs[k].Error = "" /\ runs[k].Behind > 0
            => (runs[k].CanFastForward <=> (answers[k].ancestorOk \/ runs[k].Ahead = 0))

C35_Witness ==
    \E k \in 1..Len(runs) :
        /\ runs[k].Error = "" /\ runs[k].Behind > 0
        /\ runs[k].Ahead = 0 /\ ~answers[k].ancestorOk
        /\ runs[k].CanFastForward

SameButFetch(a, b) ==
    /\ a.branchOk = b.branchOk
    /\ a.dirty = b.dirty
    /\ a.revList = b.revList
    /\ a.ancestorOk = b.ancestorOk

SameButRemoteError(s, t) ==
    /\ s.Branch = t.Branch
    /\ s.Dirty = t.Dirty
    /\ s.Ahead = t.Ahead
    /\ s.Behind = t.Behind
    /\ s.CanFastForward = t.CanFastForward
    /\ s.Error = t.Error

\* C36: two status computations to which rev-parse, status, rev-list and
\* merge-base answer the same return the same Branch, Dirty, Ahead, Behind,
\* CanFastForward and Error and run the same commands, whatever fetch did;
\* rev-list is run after a fetch that failed whenever rev-parse and status
\* did not fail
C36_FetchOnlyRemoteError ==
    /\ \A i, j \in 1..Len(runs) :
           SameButFetch(answers[i], answers[j])
               => SameButRemoteError(runs[i], runs[j]) /\ issued[i] = issued[j]
    /\ \A k \in 1..Len(runs) :
           ~answers[k].fetch.ok /\ answers[k].branchOk /\ answers[k].dirty # "fail"
               => Ran(k, "rev-list")

C36_Witness ==
    /\ Len(runs) = 2
    /\ SameButFetch(answers[1], answers[2])
    /\ answers[1].fetch.ok /\ ~answers[2].fetch.ok
    /\ runs[2].RemoteError # ""
    /\ runs[2].Behind > 0
    /\ Ran(2, "merge-base")

(***************************************************************************)
(* Diverged.                                                               *)
(***************************************************************************)
\* C38: a status without error whose CanFastForward is false has an ahead
\* count and a behind count above zero, and the summary of Status counts no
\* more diverged repositories than repositories ahead or repositories behind
C38_DivergedAheadAndBehind ==
    /\ \A i \in 1..Len(statuses) :
           statuses[i].Error = "" /\ ~statuses[i].CanFastForward
               => statuses[i].Ahead > 0 /\ statuses[i].Behind > 0
    /\ cmd = "status"
           => counts.diverged <= counts.ahead /\ counts.diverged <= counts.behind

C38_Witness ==
    /\ cmd = "status" /\ mpc = "done"
    /\ counts.diverged = 1 /\ counts.behind = 2 /\ counts.ahead = 1
    /\ \E i \in 1..Len(statuses) :
           statuses[i].Error = "" /\ ~statuses[i].CanFastForward

(***************************************************************************)
(* The organizations the remote index is asked for.                        *)
(***************************************************************************)
JobKeys == {<<statusJobs[j].provider, statusJobs[j].org>> : j \in 1..Len(statusJobs)}

TargetKeys == {<<targets[i].Provider, targets[i].Org>> : i \in 1..Len(targets)}

Listings == {k \in 1..Len(remoteCalls) : remoteCalls[k].call = "ListOrgRepos"}

ListedOncePerPair ==
    \A a, b \in Listings : remoteCalls[a].key = remoteCalls[b].key => a = b

OnRemote(st) ==
    /\ remote[KeyOf(st)].ok
    /\ st.Name \in DOMAIN remote[KeyOf(st)].repos

\* C37 as claimed: a status run asks the remote index for the pairs
\* (provider, organization) of its status jobs and no others, lists each at
\* most once, and once the index is built marks no repository orphan that
\* is on the remote under the organization of its job
C37_AsClaimed ==
    StatusesReturned /\ cmd = "status" =>
        /\ Range(orgKeys) = JobKeys
        /\ ListedOncePerPair
        /\ IndexBuilt => \A i \in 1..Len(statuses) :
                             OnRemote(statuses[i]) => ~statuses[i].Orphan

\* what holds: the index is asked for the pairs of the selected targets,
\* each listed at most once
IndexPerTargetPair ==
    StatusesReturned /\ cmd = "status" =>
        /\ Range(orgKeys) = TargetKeys
        /\ ListedOncePerPair

IndexPerTargetPairSeen ==
    /\ StatusesReturned /\ cmd = "status" /\ mpc = "done"
    /\ Cardinality(Listings) = 2

\* the orphan that is on the remote: a foldout of another organization
\* than its parent's
ForeignFoldoutOrphan ==
    /\ StatusesReturned /\ cmd = "status" /\ IndexBuilt
    /\ \E i \in 1..Len(statuses) :
           /\ OnRemote(statuses[i]) /\ statuses[i].Orphan
           /\ KeyOf(statuses[i]) \notin TargetKeys

\* C39: no status a status run returns is both orphan and archived, and
\* when the annotation was skipped, no listing being asked for or one
\* failing, every status is neither
C39_OrphanOrArchived ==
    StatusesReturned =>
        \A i \in 1..Len(statuses) :
            /\ ~(statuses[i].Orphan /\ statuses[i].Archived)
            /\ ~IndexBuilt => ~statuses[i].Orphan /\ ~statuses[i].Archived

C39_Witness ==
    /\ StatusesReturned /\ IndexBuilt
    /\ \E i, j \in 1..Len(statuses) :
           /\ statuses[i].Orphan /\ ~statuses[i].Archived
           /\ statuses[j].Archived /\ ~statuses[j].Orphan

\* a run whose annotation was skipped because a listing failed
AnnotationSkippedSeen ==
    /\ StatusesReturned /\ ~IndexBuilt
    /\ \E i \in 1..Len(statuses) : ArchivedRemote(statuses[i].Provider, statuses[i].Org,
                                                   statuses[i].Name)

(***************************************************************************)
(* The channels of pool.Run.                                               *)
(***************************************************************************)
Started == 1..started

\* no send is waiting for room: the caller about to send on jobs and every
\* worker about to send on results finds the buffer not full
NoSendBlocks ==
    /\ pc = "send" /\ sent < Len(items) => Len(jobs) < chanCap
    /\ \A w \in Started : wpc[w] = "send" => Len(results) < chanCap

\* nothing is sent on results once it is closed, and no channel is closed
\* twice
NoSendAfterClose ==
    /\ ~panicked
    /\ resultsClosed => \A w \in Started : wpc[w] = "exit"

\* the step closes results
ClosesResults == ~resultsClosed /\ resultsClosed'

\* the step closes jobs
ClosesJobs == ~jobsClosed /\ jobsClosed'

\* C40: in pool.Run nothing is sent on results after its close; results is
\* closed once, after every worker has left its loop; no send on jobs or on
\* results finds its buffer full; jobs is closed only after all the items
\* were sent
C40_ChannelDiscipline ==
    /\ [](NoSendBlocks /\ NoSendAfterClose)
    /\ [][/\ ClosesResults =>
                /\ started = nworkers
                /\ \A w \in Started : wpc[w] = "exit"
          /\ resultsClosed => results' = results \/ results' = Tail(results)
          /\ resultsClosed => resultsClosed'
          /\ ClosesJobs => sent = Len(items) /\ Len(jobs) <= Len(items)
          /\ jobsClosed => jobs' = jobs \/ jobs' = Tail(jobs)]_vars

C40_Witness ==
    /\ pc = "done"
    /\ Len(items) = MaxItems
    /\ nworkers = 2
    /\ jobsClosed /\ resultsClosed
    /\ Len(ret) = Len(items)
    /\ \A w \in Started : wpc[w] = "exit"

====
